---- MODULE Spec2Model ----
(***************************************************************************)
(* Model of the flattering package (src/flattering/__init__.py): the       *)
(* StatsCollector that infers a column layout from nested records and the  *)
(* Exporter that turns the collected stats into headers and rows.          *)
(*                                                                         *)
(* Strings (field paths, headers, property names, scalar texts) are        *)
(* sequences of one-character strings, so that concatenation, splitting,   *)
(* prefix tests and the regular expressions the code builds from paths are *)
(* computed as the code computes them.                                     *)
(***************************************************************************)
EXTENDS Integers, Sequences, FiniteSets, TLC

----------------------------------------------------------------------------
(* Strings *)

cut_separator == <<"-", ">">>

DigitChars == <<"0", "1", "2", "3", "4", "5", "6", "7", "8", "9">>

IsDigit(ch) == \E i \in 1..Len(DigitChars) : DigitChars[i] = ch

\* f"[{i}]" ; indices in the model stay below 10
IndexStr(i) == <<"[", DigitChars[i + 1], "]">>

StartsWith(s, p) == Len(p) <= Len(s) /\ SubSeq(s, 1, Len(p)) = p

Drop(s, n) == SubSeq(s, n + 1, Len(s))

\* f"{prefix}{sep}{name}" if prefix else name
ChildPath(prefix, name) ==
    IF prefix # <<>> THEN prefix \o cut_separator \o name ELSE name

----------------------------------------------------------------------------
(* Python values.  t is the runtime type, a the text of a scalar, e the    *)
(* elements of a list/tuple or the (key, value) items of a dict in         *)
(* insertion order.                                                        *)

NoneV == [t |-> "none", a |-> <<>>, e |-> <<>>]
StrV(s) == [t |-> "str", a |-> s, e |-> <<>>]
IntV(s) == [t |-> "int", a |-> s, e |-> <<>>]
\* an object that is neither hashable, a list/tuple nor a dict
SetV == [t |-> "set", a |-> <<>>, e |-> <<>>]
ListV(es) == [t |-> "list", a |-> <<>>, e |-> es]
TupleV(es) == [t |-> "tuple", a |-> <<>>, e |-> es]
DictV(kvs) == [t |-> "dict", a |-> <<>>, e |-> kvs]
KV(k, v) == [k |-> k, v |-> v]

is_hashable(value) == value.t \in {"none", "str", "int"}

is_list(value) == value.t \in {"list", "tuple"}

is_dict(value) == value.t = "dict"

----------------------------------------------------------------------------
(* Insertion-ordered dicts: sequences of [k, d] entries *)

HasKey(m, k) == \E i \in 1..Len(m) : m[i].k = k

KeyIndex(m, k) == CHOOSE i \in 1..Len(m) : m[i].k = k

Get(m, k) == m[KeyIndex(m, k)].d

Put(m, k, d) ==
    IF HasKey(m, k)
    THEN [i \in 1..Len(m) |-> IF m[i].k = k THEN [k |-> k, d |-> d] ELSE m[i]]
    ELSE Append(m, [k |-> k, d |-> d])

Pop(m, k) == SelectSeq(m, LAMBDA x : x.k # k)

Keys(m) == [i \in 1..Len(m) |-> m[i].k]

----------------------------------------------------------------------------
(* Header descriptors (TypedDict Header, total=False) and Property *)

EmptyD == [hasCount |-> FALSE, count |-> 0, hasProps |-> FALSE,
           props |-> <<>>, type |-> ""]

ArrayD(n, props) == [hasCount |-> TRUE, count |-> n, hasProps |-> TRUE,
                     props |-> props, type |-> "array"]

ObjectD(props) == [hasCount |-> FALSE, count |-> 0, hasProps |-> TRUE,
                   props |-> props, type |-> "object"]

DegenerateD == [hasCount |-> TRUE, count |-> 0, hasProps |-> FALSE,
                props |-> <<>>, type |-> "object"]

Property(values, limited) == [values |-> values, limited |-> limited]

\* truthiness of stats.get(path): a missing key and {} are both falsy
Truthy(stats, path) == HasKey(stats, path) /\ Get(stats, path) # EmptyD

----------------------------------------------------------------------------
(* StatsCollector.  A collector state is [stats, inv, err]: _stats,        *)
(* _invalid_properties (path -> kind of message) and the exception that    *)
(* escaped, "" when none did.  Mutations made before an exception stay.    *)

named_columns_limit == 2

NewCollector == [stats |-> <<>>, inv |-> <<>>, err |-> ""]

Raise(st, exc) == [st EXCEPT !.err = exc]

\* The pattern re compiles from a path that is pasted, unescaped, into a
\* regular expression: "[...]" is a character class, anything else a literal.
\* Each element is the set of characters it accepts.
RECURSIVE RegexElems(_)
RegexElems(p) ==
    IF p = <<>> THEN <<>>
    ELSE IF p[1] = "[" /\ \E j \in 3..Len(p) : p[j] = "]"
         THEN LET j == CHOOSE j \in 3..Len(p) :
                          p[j] = "]" /\ \A h \in 3..(j - 1) : p[h] # "]"
              IN <<{p[h] : h \in 2..(j - 1)}>> \o RegexElems(Drop(p, j))
         ELSE <<{p[1]}>> \o RegexElems(Drop(p, 1))

\* \[\d+\].*  at the start of rest
IndexThenAny(rest) ==
    /\ Len(rest) >= 3
    /\ rest[1] = "["
    /\ \E j \in 3..Len(rest) :
          rest[j] = "]" /\ \A h \in 2..(j - 1) : IsDigit(rest[h])

\* re.match(r"^(" + prefix + r"\[\d+\].*|" + prefix + sep + r".*)", k)
OutdatedMatch(prefix, k) ==
    LET elems == RegexElems(prefix)
        rest == Drop(k, Len(elems))
    IN /\ Len(k) >= Len(elems)
       /\ \A i \in 1..Len(elems) : k[i] \in elems[i]
       /\ (IndexThenAny(rest) \/ StartsWith(rest, cut_separator))

clear_outdated_stats(st, prefix) ==
    [st EXCEPT !.stats = SelectSeq(st.stats,
                                   LAMBDA x : ~OutdatedMatch(prefix, x.k))]

\* the three lines every conflict branch of _process_base_object runs
MarkInvalid(st, property_path, msg) ==
    LET st1 == [st EXCEPT !.inv = Put(st.inv, property_path, msg)]
        st2 == clear_outdated_stats(st1, property_path)
    IN [st2 EXCEPT !.stats = Put(st2.stats, property_path, EmptyD)]

_process_hashable_value(st, property_name, property_value, prefix) ==
    IF st.err # "" THEN st
    ELSE IF ~HasKey(st.stats, prefix) \/ ~Get(st.stats, prefix).hasProps
    THEN Raise(st, "KeyError")
    ELSE
    LET d == Get(st.stats, prefix)
        props1 == IF HasKey(d.props, property_name) THEN d.props
                  ELSE Put(d.props, property_name, Property(<<>>, FALSE))
        pd == Get(props1, property_name)
        \* a dict used as an ordered set of the values seen
        values1 == IF \E i \in 1..Len(pd.values) : pd.values[i] = property_value
                   THEN pd.values
                   ELSE Append(pd.values, property_value)
        pd1 == IF pd.limited THEN pd
               ELSE IF Len(values1) > named_columns_limit
                    THEN Property(<<>>, TRUE)
                    ELSE Property(values1, FALSE)
    IN [st EXCEPT !.stats = Put(st.stats, prefix,
                                [d EXCEPT !.props = Put(props1, property_name, pd1)])]

RECURSIVE HashableObjectLoop(_, _, _, _)
HashableObjectLoop(st, items, prefix, i) ==
    IF i > Len(items) \/ st.err # "" THEN st
    ELSE IF items[i].v.t = "none"
         THEN HashableObjectLoop(st, items, prefix, i + 1)
         ELSE HashableObjectLoop(
                  _process_hashable_value(st, items[i].k, items[i].v, prefix),
                  items, prefix, i + 1)

_process_hashable_object(st, object_value, prefix) ==
    LET st1 == IF ~Truthy(st.stats, prefix)
               THEN [st EXCEPT !.stats = Put(st.stats, prefix, ObjectD(<<>>))]
               ELSE st
    IN HashableObjectLoop(st1, object_value.e, prefix, 1)

\* isinstance(property_value, self._map_types(property_name, property_type))
MatchesType(property_value, property_type) ==
    IF property_type = "object" THEN is_dict(property_value)
    ELSE is_list(property_value)

RECURSIVE process_object(_, _, _)
RECURSIVE _process_array(_, _, _)
RECURSIVE ArrayElementsLoop(_, _, _, _)
RECURSIVE BaseArrayLoop(_, _, _, _, _)
RECURSIVE BaseObjectLoop(_, _, _, _, _)

\* One iteration of the loop of _process_base_object over the items of
\* object_value, then the rest; has_vh tells whether values_hashable was
\* passed (and is non-empty).
BaseObjectLoop(st, items, prefix, has_vh, i) ==
    IF i > Len(items) \/ st.err # "" THEN st
    ELSE
    LET property_name == items[i].k
        property_value == items[i].v
        property_path == ChildPath(prefix, property_name)
        present == HasKey(st.stats, property_path)
        property_stats == IF present THEN Get(st.stats, property_path) ELSE EmptyD
        property_type == IF present THEN property_stats.type ELSE ""
        next(s) == BaseObjectLoop(s, items, prefix, has_vh, i + 1)
    IN IF property_value.t = "none" THEN next(st)
       ELSE IF has_vh /\ is_hashable(property_value)
               /\ present /\ property_stats # EmptyD
       THEN next(MarkInvalid(st, property_path, "hashable after non-hashable"))
       ELSE IF has_vh /\ ~is_hashable(property_value)
               /\ present /\ property_stats = EmptyD
       THEN next(MarkInvalid(st, property_path, "non-hashable after hashable"))
       ELSE IF property_type # ""
               /\ ~MatchesType(property_value, property_type)
               /\ ~HasKey(st.inv, property_path)
       THEN next(MarkInvalid(st, property_path, "type changed"))
       ELSE IF is_hashable(property_value)
       THEN next(IF ~present
                 THEN [st EXCEPT !.stats = Put(st.stats, property_path, EmptyD)]
                 ELSE st)
       ELSE IF is_list(property_value)
       THEN next(_process_array(st, property_value, property_path))
       ELSE IF is_dict(property_value)
       THEN next(process_object(st, property_value, property_path))
       ELSE next(MarkInvalid(st, property_path, "unsupported type"))

_process_base_object(st, object_value, prefix, has_vh) ==
    BaseObjectLoop(st, object_value.e, prefix,
                   has_vh /\ object_value.e # <<>>, 1)

\* the replay of the values captured so far, one {name: value} at a time
RECURSIVE RebuildLoop(_, _, _, _, _)
RebuildLoop(st, props, prefix, i, j) ==
    IF i > Len(props) \/ st.err # "" THEN st
    ELSE IF j > Len(props[i].d.values)
         THEN RebuildLoop(st, props, prefix, i + 1, 1)
         ELSE RebuildLoop(
                  _process_base_object(
                      st, DictV(<<KV(props[i].k, props[i].d.values[j])>>),
                      prefix, FALSE),
                  props, prefix, i, j + 1)

process_object(st, object_value, prefix) ==
    IF st.err # "" THEN st
    ELSE IF HasKey(st.inv, prefix) THEN st
    ELSE
    LET all_hashable == \A i \in 1..Len(object_value.e) :
                            is_hashable(object_value.e[i].v)
        present == HasKey(st.stats, prefix)
        d == IF present THEN Get(st.stats, prefix) ELSE EmptyD
    IN IF d.hasCount /\ d.count = 0
       THEN _process_base_object(st, object_value, prefix, TRUE)
       ELSE IF all_hashable /\ prefix # <<>>
       THEN _process_hashable_object(st, object_value, prefix)
       ELSE
       LET st1 == IF d.hasProps /\ d.props # <<>>
                  THEN RebuildLoop([st EXCEPT !.stats = Pop(st.stats, prefix)],
                                   d.props, prefix, 1, 1)
                  ELSE st
           st2 == IF prefix # <<>> /\ st1.err = ""
                  THEN [st1 EXCEPT !.stats = Put(st1.stats, prefix, DegenerateD)]
                  ELSE st1
       IN _process_base_object(st2, object_value, prefix, TRUE)

\* for et in ((dict,), (list, tuple)): some element types in et, some not
MixedTypes(array_value) ==
    LET n == Len(array_value.e)
    IN \/ /\ \E i \in 1..n : is_dict(array_value.e[i])
          /\ \E i \in 1..n : ~is_dict(array_value.e[i])
       \/ /\ \E i \in 1..n : is_list(array_value.e[i])
          /\ \E i \in 1..n : ~is_list(array_value.e[i])

\* self._stats[prefix]["count"] = max(self._stats[prefix]["count"], n)
\* a count that follows the latest sequence instead of the longest
RaiseCount_latest(st, prefix, n) ==
    IF st.err # "" THEN st
    ELSE IF ~HasKey(st.stats, prefix) \/ ~Get(st.stats, prefix).hasCount
    THEN Raise(st, "KeyError")
    ELSE [st EXCEPT !.stats =
             Put(st.stats, prefix, [Get(st.stats, prefix) EXCEPT !.count = n])]

RaiseCount(st, prefix, n) ==
    IF st.err # "" THEN st
    ELSE IF ~HasKey(st.stats, prefix) \/ ~Get(st.stats, prefix).hasCount
    THEN Raise(st, "KeyError")
    ELSE LET d == Get(st.stats, prefix)
         IN IF d.count < n
            THEN [st EXCEPT !.stats = Put(st.stats, prefix, [d EXCEPT !.count = n])]
            ELSE st

ArrayElementsLoop(st, elements, prefix, i) ==
    IF i > Len(elements) \/ st.err # "" THEN st
    ELSE ArrayElementsLoop(
             _process_array(st, elements[i], prefix \o IndexStr(i - 1)),
             elements, prefix, i + 1)

\* The two nested loops of _process_base_array, flattened: element i (from
\* 1), then its items from position j.  The collector state carries hh, the
\* has_hashable_values flag.
BaseArrayLoop(sh, elements, prefix, i, j) ==
    IF i > Len(elements) \/ sh.st.err # "" THEN sh
    ELSE IF ~is_dict(elements[i])
    THEN [sh EXCEPT !.st = Raise(sh.st, "AttributeError")]
    ELSE IF j > Len(elements[i].e)
    THEN BaseArrayLoop(sh, elements, prefix, i + 1, 1)
    ELSE
    LET st == sh.st
        property_name == elements[i].e[j].k
        property_value == elements[i].e[j].v
        property_path == prefix \o IndexStr(i - 1) \o cut_separator \o property_name
        next(s, h) == BaseArrayLoop([st |-> s, hh |-> h], elements, prefix, i, j + 1)
    IN IF HasKey(st.inv, property_path) THEN next(st, sh.hh)
       ELSE IF is_hashable(property_value)
       THEN next(_process_hashable_value(st, property_name, property_value, prefix),
                 TRUE)
       ELSE IF is_list(property_value)
       THEN next(_process_array(st, property_value, property_path), sh.hh)
       ELSE IF is_dict(property_value)
       THEN next(process_object(st, property_value, property_path), sh.hh)
       ELSE next([st EXCEPT !.inv = Put(st.inv, property_path, "unsupported type")],
                 sh.hh)

_process_base_array(st, array_value, prefix) ==
    LET sh == BaseArrayLoop([st |-> st, hh |-> FALSE], array_value.e, prefix, 1, 1)
        st1 == sh.st
    IN IF st1.err # "" THEN st1
       ELSE IF ~HasKey(st1.stats, prefix) THEN Raise(st1, "KeyError")
       ELSE IF Get(st1.stats, prefix).props # <<>> \/ sh.hh
       THEN RaiseCount(st1, prefix, Len(array_value.e))
       ELSE st1

_process_array(st, array_value, prefix) ==
    IF st.err # "" THEN st
    ELSE IF Len(array_value.e) = 0 THEN st
    ELSE IF HasKey(st.inv, prefix) /\ ~HasKey(st.stats, prefix)
    THEN Raise(st, "KeyError")
    ELSE IF HasKey(st.inv, prefix) /\ Get(st.stats, prefix) = EmptyD THEN st
    ELSE
    LET st1 == IF MixedTypes(array_value)
               THEN [st EXCEPT !.inv = Put(st.inv, prefix, "mixed types")]
               ELSE st
        st2 == IF ~HasKey(st1.stats, prefix)
               THEN [st1 EXCEPT !.stats = Put(st1.stats, prefix, ArrayD(0, <<>>))]
               ELSE st1
    IN IF is_hashable(array_value.e[1]) \/ HasKey(st2.inv, prefix)
       THEN RaiseCount(st2, prefix, Len(array_value.e))
       ELSE IF is_list(array_value.e[1])
       THEN ArrayElementsLoop(st2, array_value.e, prefix, 1)
       ELSE _process_base_array(st2, array_value, prefix)

RECURSIVE ItemsLoop(_, _, _)
ItemsLoop(st, items, i) ==
    IF i > Len(items) \/ st.err # "" THEN st
    ELSE ItemsLoop(process_object(st, items[i], <<>>), items, i + 1)

\* a batch whose first record is dropped
process_items_skip(st, items) ==
    IF ~is_list(items) THEN Raise(st, "TypeError")
    ELSE IF Len(items.e) = 0 THEN st
    ELSE IF \E i, j \in 1..Len(items.e) : items.e[i].t # items.e[j].t
    THEN Raise(st, "TypeError")
    ELSE IF is_dict(items.e[1]) THEN ItemsLoop(st, items.e, 2)
    ELSE Raise(st, "TypeError")

\* the leading records of the batch
LeadingDicts(elements) ==
    SubSeq(elements, 1,
           CHOOSE n \in 0..Len(elements) :
               /\ \A i \in 1..n : is_dict(elements[i])
               /\ n < Len(elements) => ~is_dict(elements[n + 1]))

\* a batch checked element by element while it is processed
process_items_lazy(st, items) ==
    IF ~is_list(items) THEN Raise(st, "TypeError")
    ELSE LET done == ItemsLoop(st, LeadingDicts(items.e), 1)
         IN IF done.err = "" /\ Len(LeadingDicts(items.e)) < Len(items.e)
            THEN Raise(done, "TypeError")
            ELSE done

\* items is any Python value; a TypeError leaves the collector as it was
process_items(st, items) ==
    IF ~is_list(items) THEN Raise(st, "TypeError")
    ELSE IF Len(items.e) = 0 THEN st
    ELSE IF \E i, j \in 1..Len(items.e) : items.e[i].t # items.e[j].t
    THEN Raise(st, "TypeError")
    ELSE IF is_dict(items.e[1]) THEN ItemsLoop(st, items.e, 1)
    ELSE IF is_list(items.e[1]) THEN Raise(st, "TypeError")
    ELSE Raise(st, "TypeError")

----------------------------------------------------------------------------
(* Text operations of Python the exporter relies on *)

\* sep.join(parts)
RECURSIVE Join(_, _)
Join(parts, sep) ==
    IF parts = <<>> THEN <<>>
    ELSE IF Len(parts) = 1 THEN parts[1]
    ELSE parts[1] \o sep \o Join(Tail(parts), sep)

\* s.find(sub) + 1: the position of the first occurrence, 0 if there is none
Find(s, sub) ==
    LET at == {i \in 1..(Len(s) - Len(sub) + 1) : SubSeq(s, i, i + Len(sub) - 1) = sub}
    IN IF at = {} THEN 0 ELSE CHOOSE i \in at : \A j \in at : i <= j

\* s.split(sep)
RECURSIVE Split(_, _)
Split(s, sep) ==
    LET i == Find(s, sep)
    IN IF i = 0 THEN <<s>>
       ELSE <<SubSeq(s, 1, i - 1)>> \o Split(Drop(s, i + Len(sep) - 1), sep)

\* s.replace(old, new)
RECURSIVE Replace(_, _, _)
Replace(s, old, new) ==
    LET i == Find(s, old)
    IN IF i = 0 THEN s
       ELSE SubSeq(s, 1, i - 1) \o new \o Replace(Drop(s, i + Len(old) - 1), old, new)

\* repr(value); the texts of the model hold no quotes or backslashes
RECURSIVE repr(_)
repr(value) ==
    LET Items(n) == [i \in 1..n |->
                        IF is_dict(value)
                        THEN <<"'">> \o value.e[i].k \o <<"'", ":", " ">> \o repr(value.e[i].v)
                        ELSE repr(value.e[i])]
        inner == Join(Items(Len(value.e)), <<",", " ">>)
    IN CASE value.t = "str" -> <<"'">> \o value.a \o <<"'">>
         [] value.t = "int" -> value.a
         [] value.t = "none" -> <<"N", "o", "n", "e">>
         [] value.t = "set" -> <<"U", "(", ")">>
         [] value.t = "list" -> <<"[">> \o inner \o <<"]">>
         [] value.t = "tuple" ->
                <<"(">> \o inner \o (IF Len(value.e) = 1 THEN <<",">> ELSE <<>>) \o <<")">>
         [] value.t = "dict" -> <<"{">> \o inner \o <<"}">>

\* str(value)
str(value) == IF value.t = "str" THEN value.a ELSE repr(value)

\* bool(value)
Falsy(value) ==
    \/ value.t = "none"
    \/ value.t = "str" /\ value.a = <<>>
    \/ value.t = "int" /\ value.a = <<"0">>
    \/ value.t \in {"list", "tuple", "dict"} /\ value.e = <<>>

\* dict access on a record or one of its objects
HasItem(obj, name) == \E i \in 1..Len(obj.e) : obj.e[i].k = name

Item(obj, name) == obj.e[CHOOSE i \in 1..Len(obj.e) : obj.e[i].k = name].v

----------------------------------------------------------------------------
(* scalpl.Cut: lookup of a path in a record.  A result is [exc, v]: the    *)
(* exception raised ("" when none) and the value returned.                 *)

Returned(value) == [exc |-> "", v |-> value]

Raised(exc) == [exc |-> exc, v |-> NoneV]

\* int(text) of a text of digits
RECURSIVE ToInt(_)
ToInt(s) ==
    IF s = <<>> THEN 0
    ELSE 10 * ToInt(SubSeq(s, 1, Len(s) - 1))
         + ((CHOOSE i \in 1..Len(DigitChars) : DigitChars[i] = s[Len(s)]) - 1)

IsNumber(s) == s # <<>> /\ \A i \in 1..Len(s) : IsDigit(s[i])

\* index[:-1]
ChopLast(s) == SubSeq(s, 1, Len(s) - 1)

\* "name[i][j]" is the key name followed by the indices i and j
SectionKeys(section) ==
    LET pieces == Split(section, <<"[">>)
    IN <<[isIndex |-> FALSE, name |-> pieces[1], n |-> 0]>>
       \o [i \in 1..(Len(pieces) - 1) |->
              [isIndex |-> TRUE, name |-> <<>>, n |-> ToInt(ChopLast(pieces[i + 1]))]]

BadlyFormatted(section) ==
    LET pieces == Split(section, <<"[">>)
    IN \E i \in 2..Len(pieces) : ~IsNumber(ChopLast(pieces[i]))

RECURSIVE ConcatAll(_)
ConcatAll(seqs) ==
    IF seqs = <<>> THEN <<>> ELSE seqs[1] \o ConcatAll(Tail(seqs))

split_path(path, sep) ==
    LET sections == Split(path, sep)
    IN ConcatAll([i \in 1..Len(sections) |-> SectionKeys(sections[i])])

RECURSIVE traverse(_, _, _)
traverse(data, keys, i) ==
    IF i > Len(keys) THEN Returned(data)
    ELSE IF keys[i].isIndex
    THEN IF is_list(data)
         THEN IF keys[i].n < Len(data.e)
              THEN traverse(data.e[keys[i].n + 1], keys, i + 1)
              ELSE Raised("IndexError")
         ELSE IF data.t = "str"
         THEN IF keys[i].n < Len(data.a)
              THEN traverse(StrV(<<data.a[keys[i].n + 1]>>), keys, i + 1)
              ELSE Raised("IndexError")
         ELSE IF is_dict(data) THEN Raised("KeyError")
         ELSE Raised("TypeError")
    ELSE IF is_dict(data)
         THEN IF HasItem(data, keys[i].name)
              THEN traverse(Item(data, keys[i].name), keys, i + 1)
              ELSE Raised("KeyError")
         ELSE Raised("TypeError")

\* Cut(item, sep=cut_separator).get(path, default)
CutGet(item, path, default) ==
    IF \E i \in 1..Len(Split(path, cut_separator)) :
           BadlyFormatted(Split(path, cut_separator)[i])
    THEN Raised("ValueError")
    ELSE LET found == traverse(item, split_path(path, cut_separator), 1)
         IN IF found.exc \in {"KeyError", "IndexError"}
            THEN Returned(default)
            ELSE found

----------------------------------------------------------------------------
(* Exporter.  An exporter state is [stats, invalid_properties,              *)
(* stringify_invalid, field_options, array_limits, headers_filters,        *)
(* headers_order, headers, err]; err is the exception that escaped the     *)
(* constructor, "" when none did.  A field option is [named, grouped,      *)
(* name, grouped_separators]: named and grouped are "True", "False",       *)
(* "missing" or "other" (a value that is not a bool), name is a text       *)
(* (empty when missing).                                                   *)

grouped_separator == <<"\n">>

allowed_separators == {";", ",", "\n", ">", " "}

NoOption ==
    [named |-> "missing", grouped |-> "missing", name |-> <<>>,
     grouped_separators |-> <<>>]

\* truthiness of option.get(tp)
OptionSet(flag) == flag \in {"True", "other"}

\* whether _validate_field_options keeps the option given for property_name
OptionRetained(stats, property_name, option) ==
    /\ HasKey(stats, property_name)
    /\ OptionSet(option.named) \/ OptionSet(option.grouped)
    /\ option.named \in {"True", "False"}
    /\ option.grouped \in {"True", "False"}
    /\ OptionSet(option.named) => option.name # <<>>
    /\ \A i \in 1..Len(option.grouped_separators) :
           \A j \in 1..Len(option.grouped_separators[i].d) :
               option.grouped_separators[i].d[j] \in allowed_separators
    /\ Get(stats, property_name) # EmptyD
    /\ OptionSet(option.named) =>
           LET property_stats == Get(stats, property_name)
           IN /\ property_stats.props # <<>>
              /\ HasKey(property_stats.props, option.name)
              /\ IF ~OptionSet(option.grouped)
                 THEN ~Get(property_stats.props, option.name).limited
                 ELSE property_stats.hasCount /\ property_stats.count # 0

\* a validation that keeps every option
_validate_field_options_keep(ex) == ex

_validate_field_options(ex) ==
    [ex EXCEPT !.field_options =
        SelectSeq(ex.field_options,
                  LAMBDA entry : OptionRetained(ex.stats, entry.k, entry.d))]

\* entries of headers_order are Python values, only strings are kept
_validate_headers_order(ex) ==
    [ex EXCEPT !.headers_order =
        SelectSeq(ex.headers_order, LAMBDA header : header.t = "str")]

\* a filter is [isStr, anywhere, text]: the pattern text, or ".*" + text
_validate_headers_filters(ex) ==
    [ex EXCEPT !.headers_filters =
        SelectSeq(ex.headers_filters, LAMBDA header_filter : header_filter.isStr)]

\* an expansion that looks at `limited` before anything else
expand_limited_first(field, meta, field_option) ==
    IF /\ OptionSet(field_option.named)
       /\ HasKey(meta.props, field_option.name)
       /\ Get(meta.props, field_option.name).limited
    THEN [exc |-> "NotImplementedError", headers |-> <<>>]
    ELSE [exc |-> "", headers |-> <<field>>]

\* an expansion that takes no notice of the field option
expand_unnamed(field, meta, field_option) ==
    LET indexed == IF meta.hasCount
                   THEN [i \in 1..meta.count |-> field \o IndexStr(i - 1)]
                   ELSE <<field>>
    IN [exc |-> "",
        headers |->
            IF meta.props = <<>> THEN indexed
            ELSE [h \in 1..(Len(indexed) * Len(meta.props)) |->
                     indexed[((h - 1) \div Len(meta.props)) + 1] \o cut_separator
                     \o meta.props[((h - 1) % Len(meta.props)) + 1].k]]

\* the headers a field expands to; exc is the exception expand raises
expand(field, meta, field_option) ==
    LET separator == cut_separator
        properties == meta.props
        named == OptionSet(field_option.named)
        grouped == OptionSet(field_option.grouped)
        name == field_option.name
        rest_of_keys == SelectSeq(Keys(properties), LAMBDA key : key # name)
        values == Get(properties, name).values
        indexed == IF meta.hasCount
                   THEN [i \in 1..meta.count |-> field \o IndexStr(i - 1)]
                   ELSE <<field>>
    IN IF meta.hasCount /\ meta.count = 0 THEN [exc |-> "", headers |-> <<>>]
       ELSE IF named /\ grouped THEN [exc |-> "", headers |-> <<field>>]
       ELSE IF named
       THEN IF name = <<>> \/ ~HasKey(properties, name)
            THEN [exc |-> "KeyError", headers |-> <<>>]
            ELSE IF Get(properties, name).limited
            THEN [exc |-> "NotImplementedError", headers |-> <<>>]
            ELSE [exc |-> "",
                  headers |->
                      [h \in 1..(Len(values) * Len(rest_of_keys)) |->
                          field \o separator
                          \o str(values[((h - 1) \div Len(rest_of_keys)) + 1])
                          \o separator
                          \o rest_of_keys[((h - 1) % Len(rest_of_keys)) + 1]]]
       ELSE IF grouped
       THEN IF meta.type = "array" /\ properties # <<>>
            THEN [exc |-> "",
                  headers |-> [h \in 1..Len(properties) |->
                                  field \o separator \o properties[h].k]]
            ELSE [exc |-> "", headers |-> <<field>>]
       ELSE IF properties # <<>>
       THEN [exc |-> "",
             headers |->
                 [h \in 1..(Len(indexed) * Len(properties)) |->
                     indexed[((h - 1) \div Len(properties)) + 1] \o separator
                     \o properties[((h - 1) % Len(properties)) + 1].k]]
       ELSE [exc |-> "", headers |-> indexed]

\* field_options.get(field, {})
OptionFor(field_options, field) ==
    IF HasKey(field_options, field) THEN Get(field_options, field) ELSE NoOption

RECURSIVE ConvertLoop(_, _, _)
ConvertLoop(ex, i, acc) ==
    IF i > Len(ex.stats) THEN [ex EXCEPT !.headers = acc]
    ELSE IF ~ex.stringify_invalid /\ HasKey(ex.invalid_properties, ex.stats[i].k)
    THEN ConvertLoop(ex, i + 1, acc)
    ELSE LET expanded == expand(ex.stats[i].k, ex.stats[i].d,
                                OptionFor(ex.field_options, ex.stats[i].k))
         IN IF expanded.exc # "" THEN [ex EXCEPT !.err = expanded.exc]
            ELSE ConvertLoop(ex, i + 1, acc \o expanded.headers)

_convert_stats_to_headers(ex) == ConvertLoop(ex, 1, <<>>)

\* the f"{key}[{i}]" prefixes cut off by array_limits
LimitFilters(stats, array_limits) ==
    UNION {{array_limits[h].k \o IndexStr(i) :
               i \in array_limits[h].d..(Get(stats, array_limits[h].k).count - 1)} :
           h \in {x \in 1..Len(array_limits) :
                     /\ HasKey(stats, array_limits[x].k)
                     /\ Get(stats, array_limits[x].k).hasCount
                     /\ Get(stats, array_limits[x].k).count # 0}}

\* the descriptors after self.stats[key]["count"] = value
LimitCounts(stats, array_limits) ==
    [i \in 1..Len(stats) |->
        IF /\ HasKey(array_limits, stats[i].k)
           /\ stats[i].d.hasCount
           /\ stats[i].d.count > Get(array_limits, stats[i].k)
        THEN [k |-> stats[i].k,
              d |-> [stats[i].d EXCEPT !.count = Get(array_limits, stats[i].k)]]
        ELSE stats[i]]

\* no limiting at all
_limit_field_elements_off(ex) == ex

_limit_field_elements(ex) ==
    LET filters == LimitFilters(ex.stats, ex.array_limits)
    IN [ex EXCEPT !.stats =
           SelectSeq(LimitCounts(ex.stats, ex.array_limits),
                     LAMBDA entry : ~\E key \in filters : StartsWith(entry.k, key))]

\* re.search(ft, header): a match anywhere in the header
Matches_search(ft, header) ==
    \E i \in 0..Len(header) : StartsWith(Drop(header, i), ft.text)

\* re.match(ft, header) for the patterns of the model
Matches(ft, header) ==
    IF ft.anywhere
    THEN \E i \in 0..Len(header) : StartsWith(Drop(header, i), ft.text)
    ELSE StartsWith(header, ft.text)

_filter_headers(ex) ==
    [ex EXCEPT !.headers =
        SelectSeq(ex.headers,
                  LAMBDA header : ~\E i \in 1..Len(ex.headers_filters) :
                                      Matches(ex.headers_filters[i], header))]

\* a pop that removes nothing
RemoveFirst_keep(headers, head) == headers

\* headers.pop(headers.index(head))
RemoveFirst(headers, head) ==
    LET at == CHOOSE i \in 1..Len(headers) :
                  headers[i] = head /\ \A j \in 1..(i - 1) : headers[j] # head
    IN SubSeq(headers, 1, at - 1) \o SubSeq(headers, at + 1, Len(headers))

RECURSIVE SortLoop(_, _, _, _)
SortLoop(headers_order, i, ordered_headers, headers) ==
    IF i > Len(headers_order) THEN ordered_headers \o headers
    ELSE IF \E j \in 1..Len(headers) : headers[j] = headers_order[i].a
    THEN SortLoop(headers_order, i + 1, Append(ordered_headers, headers_order[i].a),
                  RemoveFirst(headers, headers_order[i].a))
    ELSE SortLoop(headers_order, i + 1, ordered_headers, headers)

_sort_headers(ex) ==
    [ex EXCEPT !.headers = SortLoop(ex.headers_order, 1, <<>>, ex.headers)]

\* the computation behind the memo guard; computed counts its executions
ComputeHeaders(ex) ==
    LET converted == _convert_stats_to_headers(
                         _limit_field_elements([ex EXCEPT !.computed = @ + 1]))
    IN IF converted.err # "" THEN converted
       ELSE _sort_headers(_filter_headers(converted))

\* a preparation that adds the computed headers to those already held
_prepare_for_export_extend(ex) ==
    IF ex.err # "" THEN ex
    ELSE LET computed == ComputeHeaders(ex)
         IN IF computed.err # "" THEN computed
            ELSE [computed EXCEPT !.headers = ex.headers \o @]

_prepare_for_export(ex) ==
    IF ex.err # "" \/ ex.headers # <<>> THEN ex ELSE ComputeHeaders(ex)

\* Exporter(stats=..., invalid_properties=..., **options)
NewExporter(stats, invalid_properties, options) ==
    [stats |-> stats, invalid_properties |-> invalid_properties,
     stringify_invalid |-> options.stringify_invalid,
     field_options |-> options.field_options,
     array_limits |-> options.array_limits,
     headers_filters |-> options.headers_filters,
     headers_order |-> options.headers_order,
     headers_renaming |-> options.headers_renaming,
     capitalize_headers |-> options.capitalize_headers,
     headers |-> <<>>, computed |-> 0, err |-> ""]

\* a constructor that leaves the header computation to the first use
__attrs_post_init___lazy(ex) ==
    _validate_headers_filters(_validate_headers_order(_validate_field_options(ex)))

__attrs_post_init__(ex) ==
    _prepare_for_export(
        _validate_headers_filters(_validate_headers_order(_validate_field_options(ex))))

\* StatsCollector._filter_stats
_filter_stats(stats) ==
    SelectSeq(stats, LAMBDA entry : ~(entry.d.hasCount /\ entry.d.count = 0))

----------------------------------------------------------------------------
(* Row export.  Cells are Python values: most are strings, but the grouped *)
(* and named exports hand back whatever the record holds.                  *)

EmptyCell == StrV(<<>>)

_escape_grouped_data(value, separator) ==
    IF Falsy(value) THEN value
    ELSE StrV(Replace(str(value), separator,
                      IF separator # <<"\n">> THEN <<"\\">> \o separator
                      ELSE <<"\\", "n">>))

\* separator.join(values): every value must be a string
JoinValues(values, separator) ==
    IF \E i \in 1..Len(values) : values[i].t # "str" THEN Raised("TypeError")
    ELSE Returned(StrV(Join([i \in 1..Len(values) |-> values[i].a], separator)))

JoinEscaped(values, separator) ==
    JoinValues([i \in 1..Len(values) |-> _escape_grouped_data(values[i], separator)],
               separator)

\* for element in value
Elements(value) ==
    CASE is_list(value) -> [exc |-> "", es |-> value.e]
      [] value.t = "str" -> [exc |-> "", es |-> [i \in 1..Len(value.a) |-> StrV(<<value.a[i]>>)]]
      [] is_dict(value) -> [exc |-> "", es |-> [i \in 1..Len(value.e) |-> StrV(value.e[i].k)]]
      [] OTHER -> [exc |-> "TypeError", es |-> <<>>]

_export_grouped_field(ex, item, main_header, child_headers, separator) ==
    IF Len(child_headers) = 0
    THEN LET found == CutGet(item, main_header, NoneV)
             value == found.v
         IN IF found.exc # "" THEN found
            ELSE IF value = NoneV THEN Returned(EmptyCell)
            ELSE IF is_hashable(value) THEN Returned(value)
            ELSE IF is_list(value) THEN JoinEscaped(value.e, separator)
            ELSE IF ~is_dict(value) THEN Raised("AttributeError")
            ELSE JoinValues(
                     [i \in 1..Len(value.e) |->
                         StrV(str(_escape_grouped_data(StrV(value.e[i].k), separator))
                              \o <<":", " ">>
                              \o str(_escape_grouped_data(value.e[i].v, separator)))],
                     separator)
    ELSE LET found == CutGet(item, main_header, ListV(<<>>))
             elements == Elements(found.v)
         IN IF found.exc # "" THEN found
            ELSE IF elements.exc # "" THEN Raised(elements.exc)
            ELSE IF \E i \in 1..Len(elements.es) : ~is_dict(elements.es[i])
            THEN Raised("AttributeError")
            ELSE JoinEscaped(
                     [i \in 1..Len(elements.es) |->
                         IF /\ HasItem(elements.es[i], child_headers[1])
                            /\ Item(elements.es[i], child_headers[1]) # NoneV
                         THEN Item(elements.es[i], child_headers[1])
                         ELSE EmptyCell],
                     separator)

\* the text a grouped and named field makes of one element
NamedElementText(ex, element, main_header, name, separator) ==
    LET element_name == IF HasItem(element, name) THEN Item(element, name) ELSE EmptyCell
        element_values == SelectSeq(element.e, LAMBDA kv : kv.k # name)
        properties_stats ==
            IF HasKey(ex.stats, main_header)
            THEN SelectSeq(Keys(Get(ex.stats, main_header).props), LAMBDA x : x # name)
            ELSE <<>>
    IN IF Len(properties_stats) > 1
       THEN <<"-", " ">> \o str(element_name) \o separator
            \o Join([i \in 1..Len(element_values) |->
                        element_values[i].k \o <<":", " ">> \o str(element_values[i].v)],
                    separator)
       ELSE str(element_name) \o <<":", " ">>
            \o Join([i \in 1..Len(element_values) |-> str(element_values[i].v)], <<",">>)

_export_grouped_and_named_field(ex, item, main_header, separator) ==
    LET name == Get(ex.field_options, main_header).name
        found == CutGet(item, main_header, ListV(<<>>))
        elements == Elements(found.v)
    IN IF found.exc # "" THEN found
       ELSE IF elements.exc # "" THEN Raised(elements.exc)
       ELSE IF \E i \in 1..Len(elements.es) : ~is_dict(elements.es[i])
       THEN Raised("AttributeError")
       ELSE JoinEscaped(
                [i \in 1..Len(elements.es) |->
                    StrV(NamedElementText(ex, elements.es[i], main_header, name, separator))],
                separator)

RECURSIVE NamedLoop(_, _, _, _)
NamedLoop(elements, name, child_headers, i) ==
    IF i > Len(elements) THEN Returned(EmptyCell)
    ELSE IF ~is_dict(elements[i]) THEN Raised("AttributeError")
    ELSE IF Len(child_headers) = 0 THEN Raised("IndexError")
    ELSE IF /\ HasItem(elements[i], name)
            /\ Item(elements[i], name) = StrV(child_headers[1])
    THEN IF Len(child_headers) < 2 THEN Raised("IndexError")
         ELSE IF HasItem(elements[i], child_headers[2])
         THEN Returned(Item(elements[i], child_headers[2]))
         ELSE Returned(EmptyCell)
    ELSE NamedLoop(elements, name, child_headers, i + 1)

_export_named_field(ex, item, main_header, child_headers) ==
    LET name == Get(ex.field_options, main_header).name
        found == CutGet(item, main_header, ListV(<<>>))
        elements == found.v
    IN IF found.exc # "" THEN found
       ELSE IF is_list(elements) THEN NamedLoop(elements.e, name, child_headers, 1)
       ELSE IF is_dict(elements)
       THEN IF elements.e = <<>> THEN Returned(EmptyCell)
            ELSE IF Len(child_headers) < 2 THEN Raised("IndexError")
            ELSE IF HasItem(elements, child_headers[2])
            THEN Returned(Item(elements, child_headers[2]))
            ELSE Returned(EmptyCell)
       ELSE Raised("ValueError")

_export_field_with_options(ex, header, main_header, child_headers, item) ==
    LET option == Get(ex.field_options, main_header)
        separator == IF /\ HasKey(option.grouped_separators, header)
                        /\ Get(option.grouped_separators, header) # <<>>
                     THEN Get(option.grouped_separators, header)
                     ELSE grouped_separator
    IN IF option.grouped = "True"
       THEN IF option.named # "True"
            THEN _export_grouped_field(ex, item, main_header, child_headers, separator)
            ELSE _export_grouped_and_named_field(ex, item, main_header, separator)
       ELSE _export_named_field(ex, item, main_header, child_headers)

\* cut_separator.join(header_path[0 : i])
OptionPath(header_path, i) == Join(SubSeq(header_path, 1, i), cut_separator)

\* the length of the longest prefix of the header path that has a field option
MainHeaderAt_deepest(ex, header_path) ==
    LET hits == {i \in 1..Len(header_path) :
                    HasKey(ex.field_options, OptionPath(header_path, i))}
    IN IF hits = {} THEN 0 ELSE CHOOSE i \in hits : \A j \in hits : i >= j

\* the length of the shortest prefix of the header path that has a field
\* option (the main header), 0 if no prefix has one
MainHeaderAt(ex, header_path) ==
    LET hits == {i \in 1..Len(header_path) :
                    HasKey(ex.field_options, OptionPath(header_path, i))}
    IN IF hits = {} THEN 0 ELSE CHOOSE i \in hits : \A j \in hits : i <= j

\* the cell export_item_as_row appends for one header
ExportCell(ex, header, item) ==
    IF ex.stringify_invalid /\ HasKey(ex.invalid_properties, header)
    THEN LET found == CutGet(item, header, EmptyCell)
         IN IF found.exc # "" THEN found ELSE Returned(StrV(str(found.v)))
    ELSE LET header_path == Split(header, cut_separator)
             first == MainHeaderAt(ex, header_path)
         IN IF first # 0
            THEN _export_field_with_options(
                     ex, header, OptionPath(header_path, first),
                     SubSeq(header_path, first + 1, Len(header_path)), item)
            ELSE LET found == CutGet(item, header, EmptyCell)
                 IN IF found.exc = "TypeError" THEN Returned(EmptyCell)
                    ELSE IF found.exc # "" THEN found
                    ELSE IF found.v = NoneV THEN Returned(EmptyCell)
                    ELSE Returned(StrV(str(found.v)))

\* a row that leaves out the cells that would be empty
RECURSIVE RowLoop_skip(_, _, _, _)
RowLoop_skip(ex, item, i, row) ==
    IF i > Len(ex.headers) THEN [exc |-> "", row |-> row]
    ELSE LET cell == ExportCell(ex, ex.headers[i], item)
         IN IF cell.exc # "" THEN [exc |-> cell.exc, row |-> <<>>]
            ELSE RowLoop_skip(ex, item, i + 1,
                              IF cell.v = EmptyCell THEN row ELSE Append(row, cell.v))

\* a result is [exc, row]; nothing is returned when a cell raises
RECURSIVE RowLoop(_, _, _, _)
RowLoop(ex, item, i, row) ==
    IF i > Len(ex.headers) THEN [exc |-> "", row |-> row]
    ELSE LET cell == ExportCell(ex, ex.headers[i], item)
         IN IF cell.exc # "" THEN [exc |-> cell.exc, row |-> <<>>]
            ELSE RowLoop(ex, item, i + 1, Append(row, cell.v))

export_item_as_row(ex, item) == RowLoop(ex, item, 1, <<>>)

----------------------------------------------------------------------------
(* Headers as written out.  headers_renaming is a list of Python values;   *)
(* a well-formed one is a list/tuple of two strings, the pattern and the   *)
(* replacement.  The patterns of the model are plain texts, which re.sub   *)
(* replaces wherever they occur.                                           *)

\* the attrs validator of headers_renaming: "" or the exception it raises
check_headers_renaming(value) ==
    IF \E i \in 1..Len(value) :
           \/ ~is_list(value[i])
           \/ Len(value[i].e) # 2
           \/ \E j \in 1..Len(value[i].e) : value[i].e[j].t # "str"
    THEN "ValueError" ELSE ""

LowerChars ==
    <<"a", "b", "c", "d", "e", "f", "g", "h", "i", "j", "k", "l", "m",
      "n", "o", "p", "q", "r", "s", "t", "u", "v", "w", "x", "y", "z">>

UpperChars ==
    <<"A", "B", "C", "D", "E", "F", "G", "H", "I", "J", "K", "L", "M",
      "N", "O", "P", "Q", "R", "S", "T", "U", "V", "W", "X", "Y", "Z">>

\* header[:1].capitalize() + header[1:]
Capitalize(header) ==
    IF header = <<>> THEN header
    ELSE IF \E i \in 1..Len(LowerChars) : LowerChars[i] = header[1]
    THEN <<UpperChars[CHOOSE i \in 1..Len(LowerChars) : LowerChars[i] = header[1]]>>
         \o Tail(header)
    ELSE header

\* re.sub(old, new, header) for each pair in turn
RECURSIVE RenameLoop(_, _, _)
RenameLoop(headers_renaming, header, i) ==
    IF i > Len(headers_renaming) THEN header
    ELSE RenameLoop(headers_renaming,
                    Replace(header, headers_renaming[i].e[1].a, headers_renaming[i].e[2].a),
                    i + 1)

_get_renamed_headers(ex) ==
    IF ex.headers_renaming = <<>> THEN ex.headers
    ELSE [h \in 1..Len(ex.headers) |->
             LET header == RenameLoop(ex.headers_renaming, ex.headers[h], 1)
             IN IF ex.capitalize_headers /\ header # <<>>
                THEN Capitalize(header) ELSE header]

----------------------------------------------------------------------------
(* The records the model feeds to the collector *)

X == StrV(<<"x">>)
Y == StrV(<<"y">>)
Z == StrV(<<"z">>)

Obj1(k, v) == DictV(<<KV(<<k>>, v)>>)
Obj2(k1, v1, k2, v2) == DictV(<<KV(<<k1>>, v1), KV(<<k2>>, v2)>>)
RecC(v) == Obj1("c", v)
RecC0(v) == DictV(<<KV(<<"c", "0">>, Obj1("p", Obj1("v", v)))>>)

Records ==
    << DictV(<<>>),
       RecC(X),
       RecC(NoneV),
       RecC(SetV),
       RecC(ListV(<<X>>)),
       RecC(ListV(<<X, Y>>)),
       RecC(ListV(<<>>)),
       RecC(ListV(<<ListV(<<X>>), ListV(<<Y, Z>>)>>)),
       RecC(ListV(<<X, Obj1("n", X)>>)),
       RecC(ListV(<<Obj2("n", X, "v", Y)>>)),
       RecC(ListV(<<Obj2("n", X, "v", Y), Obj2("n", Y, "v", Z)>>)),
       RecC(ListV(<<Obj2("n", Z, "v", NoneV)>>)),
       RecC(ListV(<<Obj1("n", X), Obj1("n", Y), Obj1("n", Z)>>)),
       RecC(ListV(<<Obj2("n", X, "p", ListV(<<X>>))>>)),
       RecC(ListV(<<Obj1("p", ListV(<<X>>))>>)),
       RecC(ListV(<<Obj1("p", X)>>)),
       RecC(ListV(<<Obj1("p", Obj1("q", X))>>)),
       RecC(ListV(<<Obj1("p", Obj1("v", Obj1("q", ListV(<<X>>))))>>)),
       RecC(ListV(<<Obj1("p", Obj1("v", X))>>)),
       RecC(ListV(<<Obj1("n", SetV)>>)),
       RecC(ListV(<<SetV>>)),
       RecC(Obj2("n", X, "v", Y)),
       RecC(Obj2("n", Y, "v", NoneV)),
       RecC(Obj1("n", Z)),
       RecC(Obj2("n", X, "p", ListV(<<X, Y>>))),
       RecC(Obj1("p", Obj1("q", X))),
       RecC(Obj1("n", SetV)),
       RecC(Obj1("n", ListV(<<X>>))),
       Obj2("c", X, "d", Y),
       Obj1("d", ListV(<<X>>)),
       RecC0(ListV(<<ListV(<<Obj1("n", X), Obj1("n", Y), Obj1("n", Z)>>)>>)),
       RecC0(ListV(<<ListV(<<Obj1("n", X)>>)>>)),
       DictV(<<KV(<<"c", "0">>, Obj1("p", Obj1("v", Obj2("q", X, "r", ListV(<<X>>))))),
               KV(<<"c">>, ListV(<<Obj1("p", Obj1("v", Obj1("q", ListV(<<X>>))))>>))>>),
       DictV(<<KV(<<"c", "0">>, Obj1("p", Obj1("v", Obj2("q", Y, "r", ListV(<<X>>))))),
               KV(<<"c">>, ListV(<<Obj1("p", Obj1("v", X))>>))>>),
       RecC(ListV(<<DictV(<<KV(<<"n">>, X), KV(<<"v">>, Y), KV(<<"w">>, Z)>>),
                    Obj2("n", Y, "v", Z)>>)),
       RecC(ListV(<<IntV(<<"0">>), X>>)),
       RecC(ListV(<<Obj2("n", IntV(<<"0">>), "v", X), Obj1("v", Y)>>)),
       DictV(<<KV(<<"c">>, ListV(<<Obj2("n", X, "v", Y)>>)),
               KV(<<"c", "-", ">", "n">>, ListV(<<Obj1("a", Z)>>))>>),
       RecC0(Obj1("q", ListV(<<X>>))),
       RecC(ListV(<<Obj2("n", IntV(<<"0">>), "v", X),
                    Obj2("n", StrV(<<"0">>), "v", Y)>>)) >>

----------------------------------------------------------------------------
(* What a record presents: the value kinds and sequence lengths found at   *)
(* each path by walking the record itself.                                 *)

Kind(v) ==
    IF v.t \in {"str", "int"} THEN "scalar"
    ELSE IF is_list(v) THEN "array"
    ELSE IF is_dict(v) THEN "object"
    ELSE IF v.t = "none" THEN "none"
    ELSE "unsupported"

RECURSIVE ObserveValue(_, _)
ObserveValue(v, path) ==
    IF v.t = "none" THEN {}
    ELSE {[path |-> path, kind |-> Kind(v), len |-> Len(v.e),
           flat |-> is_list(v) /\ \A i \in 1..Len(v.e) : is_hashable(v.e[i])]}
         \cup
         (IF is_list(v)
          THEN UNION {ObserveValue(v.e[i], path \o IndexStr(i - 1)) :
                          i \in 1..Len(v.e)}
          ELSE IF is_dict(v)
          THEN UNION {ObserveValue(v.e[i].v, ChildPath(path, v.e[i].k)) :
                          i \in 1..Len(v.e)}
          ELSE {})

Observe(record) ==
    UNION {ObserveValue(record.e[i].v, record.e[i].k) : i \in 1..Len(record.e)}

\* path q is p followed by an index or by the separator and more
IsDescendant(q, p) ==
    /\ StartsWith(q, p)
    /\ Len(q) > Len(p)
    /\ (q[Len(p) + 1] = "[" \/ StartsWith(Drop(q, Len(p)), cut_separator))

\* The non-None scalar properties of the objects found in v, which sits at
\* path, as [p, k, v] entries in traversal order.  p is the path whose
\* descriptor collects the property: the object's own path, or the path of
\* the array of which the object is an element.
RECURSIVE ValuesIn(_, _)
RECURSIVE ItemsValues(_, _, _, _)
RECURSIVE ElemsValues(_, _, _)
ValuesIn(v, path) ==
    IF is_dict(v) THEN ItemsValues(v.e, path, path, 1)
    ELSE IF is_list(v) THEN ElemsValues(v.e, path, 1)
    ELSE <<>>

ItemsValues(items, owner, base, j) ==
    IF j > Len(items) THEN <<>>
    ELSE (IF Kind(items[j].v) = "scalar"
          THEN <<[p |-> owner, k |-> items[j].k, v |-> items[j].v]>>
          ELSE ValuesIn(items[j].v, ChildPath(base, items[j].k)))
         \o ItemsValues(items, owner, base, j + 1)

ElemsValues(elems, path, i) ==
    IF i > Len(elems) THEN <<>>
    ELSE (IF is_dict(elems[i])
          THEN ItemsValues(elems[i].e, path, path \o IndexStr(i - 1), 1)
          ELSE ValuesIn(elems[i], path \o IndexStr(i - 1)))
         \o ElemsValues(elems, path, i + 1)

\* the distinct values per (path, name), in first-seen order
RECURSIVE AddValues(_, _, _)
AddValues(m, entries, i) ==
    IF i > Len(entries) THEN m
    ELSE LET key == <<entries[i].p, entries[i].k>>
             old == IF HasKey(m, key) THEN Get(m, key) ELSE <<>>
             new == IF \E h \in 1..Len(old) : old[h] = entries[i].v
                    THEN old ELSE Append(old, entries[i].v)
         IN AddValues(Put(m, key, new), entries, i + 1)

\* the (path, name) pairs of the Properties that are limited in stats
Limited(stats) ==
    UNION {{<<stats[i].k, stats[i].d.props[j].k>> :
                j \in {h \in 1..Len(stats[i].d.props) :
                           stats[i].d.props[h].d.limited}} :
           i \in 1..Len(stats)}

----------------------------------------------------------------------------
(* State *)

VARIABLES
    col,      \* the StatsCollector fed record by record
    steps,    \* number of process_object calls made on col
    last,     \* index in Records of the record passed to the last call, 0 if none
    seen,     \* what the records passed to col so far presented (see Observe)
    obsVals,  \* the scalar values those records presented per (path, name)
    latched,  \* the (path, name) pairs whose Property has been limited in col
    op,       \* the operation that produced this state
    bcol,     \* the StatsCollector fed by process_items
    calls,    \* number of process_items calls made on bcol
    batch,    \* the items passed to the last process_items call
    accepted, \* the records of the batches that process_items looped over
    ex,       \* the Exporter
    built,    \* whether the Exporter has been constructed
    row,      \* what the last export_item_as_row call returned or raised
    exported, \* index in Records of the record passed to that call, 0 if none
    written,  \* the headers the last _get_renamed_headers call returned
    given,    \* the stats and field_options the constructor was called with
    fed       \* the records passed to col so far

vars == <<col, steps, last, seen, obsVals, latched, op, bcol, calls, batch, accepted,
          ex, built, row, exported, written, given, fed>>

exporterVars == <<ex, built, row, exported, written, given>>

DefaultOptions ==
    [stringify_invalid |-> TRUE, field_options |-> <<>>, array_limits |-> <<>>,
     headers_filters |-> <<>>, headers_order |-> <<>>,
     headers_renaming |-> <<>>, capitalize_headers |-> FALSE]

MaxSteps == 3

Init ==
    /\ col = NewCollector
    /\ steps = 0
    /\ last = 0
    /\ seen = {}
    /\ obsVals = <<>>
    /\ latched = {}
    /\ op = "new"
    /\ bcol = NewCollector
    /\ calls = 0
    /\ batch = NoneV
    /\ accepted = <<>>
    /\ ex = NewExporter(<<>>, <<>>, DefaultOptions)
    /\ built = FALSE
    /\ row = [exc |-> "", row |-> <<>>]
    /\ exported = 0
    /\ written = <<>>
    /\ given = [stats |-> <<>>, field_options |-> <<>>]
    /\ fed = {}

\* col.process_object(record), on a collector that has not raised
Feed(record) ==
    /\ col.err = ""
    /\ col' = process_object(col, record, <<>>)
    /\ seen' = seen \cup Observe(record)
    /\ obsVals' = AddValues(obsVals, ItemsValues(record.e, <<>>, <<>>, 1), 1)
    /\ latched' = latched \cup Limited(col'.stats)
    /\ fed' = fed \cup {record}
    /\ steps' = steps + 1
    /\ op' = "process_object"

\* the records of the runs of process_object alone
ObjectIndexes == 1..32

ProcessObject ==
    /\ steps < MaxSteps
    /\ \E i \in ObjectIndexes : Feed(Records[i]) /\ last' = i
    /\ UNCHANGED <<bcol, calls, batch, accepted>>
    /\ UNCHANGED exporterVars

Next == ProcessObject

Spec == Init /\ [][Next]_vars

----------------------------------------------------------------------------
(* A longer run over a few records: deep paths, and an object whose name   *)
(* property is limited before a non-scalar value arrives                   *)

MaxDeepSteps == 4

DeepRecords ==
    { RecC0(ListV(<<ListV(<<Obj1("n", X), Obj1("n", Y), Obj1("n", Z)>>)>>)),
      RecC0(ListV(<<ListV(<<Obj1("n", X)>>)>>)),
      RecC(ListV(<<Obj1("p", Obj1("v", Obj1("q", ListV(<<X>>))))>>)),
      RecC(ListV(<<Obj1("p", Obj1("v", X))>>)),
      RecC(X),
      RecC(Obj2("n", X, "v", Y)),
      RecC(Obj2("n", Y, "v", NoneV)),
      RecC(Obj1("n", Z)),
      RecC(Obj1("p", Obj1("q", X))) }

ProcessDeep ==
    /\ steps < MaxDeepSteps
    /\ \E i \in 1..Len(Records) :
          Records[i] \in DeepRecords /\ Feed(Records[i]) /\ last' = i
    /\ UNCHANGED <<bcol, calls, batch, accepted>>
    /\ UNCHANGED exporterVars

NextDeep == ProcessDeep

SpecDeep == Init /\ [][NextDeep]_vars

----------------------------------------------------------------------------
(* process_items against the same records passed one by one *)

MaxBatch == 2

MaxCalls == 2

BatchRecords ==
    { Records[i] : i \in {2, 5, 9, 11, 21, 22, 25} }

\* list and tuple batches of at most n records
Batches(n) ==
    UNION {{ListV(s) : s \in [1..h -> BatchRecords]} : h \in 0..n}
    \cup {TupleV(<<r>>) : r \in BatchRecords}

\* items that process_items must reject
BadItems ==
    { X, RecC(X), SetV,
      ListV(<<RecC(X), ListV(<<X>>)>>), ListV(<<RecC(X), X>>),
      ListV(<<ListV(<<X>>), TupleV(<<X>>)>>),
      ListV(<<ListV(<<X>>)>>), ListV(<<TupleV(<<RecC(X)>>)>>),
      ListV(<<X>>), ListV(<<SetV>>), TupleV(<<X, Y>>) }

\* the caller caught the TypeError of an earlier process_items call
Caught(st) == [st EXCEPT !.err = IF @ = "TypeError" THEN "" ELSE @]

\* process_items looped over the items
Looped(items) ==
    is_list(items) /\ \A i \in 1..Len(items.e) : is_dict(items.e[i])

ProcessItems ==
    /\ calls < MaxCalls
    /\ bcol.err \in {"", "TypeError"}
    /\ \E items \in Batches(MaxBatch - Len(accepted)) \cup BadItems :
          /\ bcol' = process_items(Caught(bcol), items)
          /\ batch' = items
          /\ accepted' = IF Looped(items) THEN accepted \o items.e ELSE accepted
    /\ calls' = calls + 1
    /\ op' = "process_items"
    /\ UNCHANGED <<col, steps, last, seen, obsVals, latched, fed>>
    /\ UNCHANGED exporterVars

\* the same records, one process_object call each, on the other collector
ReplayOne ==
    /\ steps < Len(accepted)
    /\ Feed(accepted[steps + 1])
    /\ UNCHANGED <<last, bcol, calls, batch, accepted>>
    /\ UNCHANGED exporterVars

NextBatch == ProcessItems \/ ReplayOne

SpecBatch == Init /\ [][NextBatch]_vars

----------------------------------------------------------------------------
(* Collect, construct an Exporter from the collector, export rows *)

MaxExportRecords == 2

\* executions of the header computation on one Exporter
MaxComputations == 2

\* the records collected before the Exporter is built
CollectIndexes == {6, 11, 14, 16, 22, 29}

\* the records exported
ExportIndexes == {1, 3, 5, 11, 12, 22, 29}

GroupedOption(seps) ==
    [named |-> "False", grouped |-> "True", name |-> <<>>, grouped_separators |-> seps]

NamedOption(grouped, name) ==
    [named |-> "True", grouped |-> grouped, name |-> name, grouped_separators |-> <<>>]

Pattern(anywhere, text) == [isStr |-> TRUE, anywhere |-> anywhere, text |-> text]

C0V == <<"c", "[", "0", "]", "-", ">", "v">>

C0N == <<"c", "[", "0", "]", "-", ">", "n">>

\* the keyword arguments of the constructor
ExportOptions ==
    { DefaultOptions,
      [DefaultOptions EXCEPT !.stringify_invalid = FALSE],
      [DefaultOptions EXCEPT !.field_options = <<[k |-> <<"c">>, d |-> GroupedOption(<<>>)]>>],
      [DefaultOptions EXCEPT !.field_options =
          <<[k |-> <<"c">>,
             d |-> GroupedOption(<<[k |-> <<"c", "-", ">", "v">>, d |-> <<",">>]>>)]>>],
      [DefaultOptions EXCEPT !.field_options =
          <<[k |-> <<"c">>, d |-> NamedOption("False", <<"n">>)]>>],
      [DefaultOptions EXCEPT !.field_options =
          <<[k |-> <<"c">>, d |-> NamedOption("True", <<"n">>)]>>],
      [DefaultOptions EXCEPT !.field_options =
          <<[k |-> <<"d">>, d |-> NamedOption("other", <<"n">>)],
            [k |-> <<"c">>, d |-> NamedOption("False", <<>>)]>>],
      [DefaultOptions EXCEPT !.array_limits = <<[k |-> <<"c">>, d |-> 0]>>],
      [DefaultOptions EXCEPT !.array_limits = <<[k |-> <<"c">>, d |-> 1]>>],
      [DefaultOptions EXCEPT
          !.headers_filters = <<[isStr |-> FALSE, anywhere |-> FALSE, text |-> <<>>],
                                Pattern(TRUE, <<"n">>)>>],
      [DefaultOptions EXCEPT
          !.headers_order = <<StrV(<<"d">>), IntV(<<"7">>), StrV(C0V),
                              StrV(<<"c", "[", "1", "]">>), StrV(<<"d">>)>>] }

Pair(old, new) == TupleV(<<StrV(old), StrV(new)>>)

\* the keyword arguments of the constructor that bear on the headers only
HeaderOptions ==
    ExportOptions \cup
    { [DefaultOptions EXCEPT !.field_options =
          <<[k |-> <<"d">>, d |-> NamedOption("other", <<"n">>)],
            [k |-> <<"c">>, d |-> GroupedOption(<<>>)],
            [k |-> <<"e">>, d |-> GroupedOption(<<>>)]>>],
      [DefaultOptions EXCEPT !.field_options =
          <<[k |-> <<"c">>,
             d |-> GroupedOption(<<[k |-> <<"c", "-", ">", "v">>, d |-> <<",", "x">>]>>)],
            [k |-> <<"d">>, d |-> GroupedOption(<<>>)]>>],
      [DefaultOptions EXCEPT
          !.field_options = <<[k |-> <<"c">>, d |-> NamedOption("True", <<"n">>)]>>,
          !.array_limits = <<[k |-> <<"c">>, d |-> 0]>>],
      [DefaultOptions EXCEPT !.headers_filters = <<Pattern(FALSE, <<"n">>),
                                                   Pattern(FALSE, <<"d">>)>>],
      [DefaultOptions EXCEPT
          !.array_limits = <<[k |-> <<"c">>, d |-> 1]>>,
          !.headers_filters = <<Pattern(TRUE, <<"d">>)>>,
          !.headers_order = <<StrV(C0V), StrV(C0N)>>],
      [DefaultOptions EXCEPT !.capitalize_headers = TRUE],
      [DefaultOptions EXCEPT
          !.headers_renaming = <<Pair(<<"c">>, <<"d">>), Pair(<<"d">>, <<"e">>)>>,
          !.capitalize_headers = TRUE],
      [DefaultOptions EXCEPT
          !.headers_renaming = <<ListV(<<StrV(<<"-", ">">>), StrV(<<>>)>>)>>],
      [DefaultOptions EXCEPT
          !.headers_renaming = <<ListV(<<StrV(<<"c">>)>>)>>] }

\* records are collected until the Exporter is built
CollectFrom(indexes) ==
    /\ ~built
    /\ steps < MaxExportRecords
    /\ \E i \in indexes : Feed(Records[i]) /\ last' = i
    /\ UNCHANGED <<bcol, calls, batch, accepted>>
    /\ UNCHANGED exporterVars

Collect == CollectFrom(CollectIndexes)

\* Exporter(stats=..., invalid_properties=..., **options), given the
\* collector's _stats or its stats["stats"]; the descriptors are shared with
\* the collector, which sees the counts that array_limits cut
ConstructWith(choices) ==
    /\ ~built
    /\ col.err = ""
    /\ \E options \in choices, filtered \in BOOLEAN :
          /\ LET new == NewExporter(IF filtered THEN _filter_stats(col.stats)
                                     ELSE col.stats,
                                     col.inv, options)
                 rejected == check_headers_renaming(options.headers_renaming)
             IN /\ ex' = IF rejected # "" THEN [new EXCEPT !.err = rejected]
                          ELSE __attrs_post_init__(new)
                /\ col' = IF rejected # "" THEN col
                           ELSE [col EXCEPT !.stats =
                                    LimitCounts(col.stats, options.array_limits)]
                /\ given' = [stats |-> new.stats,
                             field_options |-> options.field_options]
    /\ built' = TRUE
    /\ op' = "Exporter"
    /\ UNCHANGED <<steps, last, seen, obsVals, latched, bcol, calls, batch, accepted,
                   row, exported, written, fed>>

Construct == ConstructWith(ExportOptions)

\* export_item_as_row(item) on the constructed Exporter
ExportFrom(indexes) ==
    /\ built
    /\ ex.err = ""
    /\ \E i \in indexes :
          /\ row' = export_item_as_row(ex, Records[i])
          /\ exported' = i
    /\ op' = "export_item_as_row"
    /\ UNCHANGED <<col, steps, last, seen, obsVals, latched, bcol, calls, batch, accepted,
                   ex, built, written, given, fed>>

ExportItemAsRow == ExportFrom(ExportIndexes)

\* a further call of _prepare_for_export on the constructed Exporter
PrepareForExport ==
    /\ built
    /\ ex.err = ""
    /\ ex.computed < MaxComputations
    /\ ex' = _prepare_for_export(ex)
    /\ op' = "_prepare_for_export"
    /\ UNCHANGED <<col, steps, last, seen, obsVals, latched, bcol, calls, batch, accepted,
                   built, row, exported, written, given, fed>>

\* the header access of export_csv_headers and export_csv_full
GetRenamedHeaders ==
    /\ built
    /\ ex.err = ""
    /\ written' = _get_renamed_headers(ex)
    /\ op' = "_get_renamed_headers"
    /\ UNCHANGED <<col, steps, last, seen, obsVals, latched, bcol, calls, batch, accepted,
                   ex, built, row, exported, given, fed>>

NextExport ==
    Collect \/ Construct \/ ExportItemAsRow \/ PrepareForExport \/ GetRenamedHeaders

SpecExport == Init /\ [][NextExport]_vars

----------------------------------------------------------------------------
(* Collect, construct an Exporter from the collector, read the headers *)

\* the records collected before the Exporter is built
HeaderIndexes == {6, 11, 13, 14, 16, 18, 19, 22, 29, 30, 35, 40}

CollectForHeaders == CollectFrom(HeaderIndexes)

ConstructForHeaders == ConstructWith(HeaderOptions)

NextHeaders == CollectForHeaders \/ ConstructForHeaders \/ GetRenamedHeaders

SpecHeaders == Init /\ [][NextHeaders]_vars

----------------------------------------------------------------------------
(* Collect a batch, construct an Exporter, export the records of the batch *)

\* records with scalar fields at the top level, in objects and in arrays
RoundIndexes == {2, 6, 10, 22, 29, 33, 34, 36, 37}

RoundOptions ==
    { DefaultOptions,
      [DefaultOptions EXCEPT !.stringify_invalid = FALSE],
      [DefaultOptions EXCEPT !.field_options = <<[k |-> <<"c">>, d |-> GroupedOption(<<>>)]>>] }

CollectRound == CollectFrom(RoundIndexes)

ConstructRound == ConstructWith(RoundOptions)

ExportRound == ExportFrom(RoundIndexes)

NextRound == CollectRound \/ ConstructRound \/ ExportRound

SpecRound == Init /\ [][NextRound]_vars

----------------------------------------------------------------------------
(* Field options on a path and on a path below it *)

\* records with an array of objects at c, one of them with a field named c->n
NestedIndexes == {10, 29, 38}

NestedOptions ==
    { DefaultOptions,
      [DefaultOptions EXCEPT !.field_options = <<[k |-> <<"c">>, d |-> GroupedOption(<<>>)]>>],
      [DefaultOptions EXCEPT !.field_options =
          <<[k |-> <<"c", "-", ">", "n">>, d |-> GroupedOption(<<>>)],
            [k |-> <<"c">>, d |-> GroupedOption(<<>>)]>>] }

CollectNested == CollectFrom(NestedIndexes)

ConstructNested == ConstructWith(NestedOptions)

ExportNested == ExportFrom(NestedIndexes)

NextNested == CollectNested \/ ConstructNested \/ ExportNested

SpecNested == Init /\ [][NextNested]_vars

----------------------------------------------------------------------------
(* Records that make a path invalid and then present further values at it *)

InvalidIndexes == {2, 3, 5, 22, 33, 34, 39}

ProcessInvalid ==
    /\ steps < MaxSteps
    /\ \E i \in InvalidIndexes : Feed(Records[i]) /\ last' = i
    /\ UNCHANGED <<bcol, calls, batch, accepted>>
    /\ UNCHANGED exporterVars

NextInvalid == ProcessInvalid

SpecInvalid == Init /\ [][NextInvalid]_vars

----------------------------------------------------------------------------
(* Claims about the collector *)

DriftKinds == {"scalar", "array", "object"}

\* an observation that carries type information: not None, not an empty array
Populated(o) == o.kind \in DriftKinds /\ ~(o.kind = "array" /\ o.len = 0)

\* the path of a property (it does not end in an index)
IsPropertyPath(p) == p[Len(p)] # "]"

\* observation o of the current record drifts from what was seen before
Drifts(o, before) ==
    /\ Populated(o)
    /\ IsPropertyPath(o.path)
    /\ \E e \in before : e.path = o.path /\ Populated(e) /\ e.kind # o.kind

\* key k lies outside every top-level property of the record
Unrelated(k, record) ==
    \A j \in 1..Len(record.e) :
        k # record.e[j].k /\ ~IsDescendant(k, record.e[j].k)

\* C2: when a record presents, at the path of a property, a value of another
\* kind (scalar / array / object) than earlier records did, the call does not
\* raise, the path is in invalid_properties afterwards, and the descriptors of
\* the paths outside the record's properties are unchanged.
C2_TypeDriftContained ==
    [][op' = "process_object" =>
          \A o \in Observe(Records[last']) :
              Drifts(o, seen) =>
                  /\ col'.err = ""
                  /\ HasKey(col'.inv, o.path)
                  /\ \A i \in 1..Len(col.stats) :
                        Unrelated(col.stats[i].k, Records[last']) =>
                            /\ HasKey(col'.stats, col.stats[i].k)
                            /\ Get(col'.stats, col.stats[i].k) = col.stats[i].d]_vars

\* C4: process_object never raises for a dict record, and every nested value
\* of an unsupported type has an invalid_properties entry for its path.
C4_NeverRaises ==
    op = "process_object" =>
        /\ col.err = ""
        /\ \A o \in Observe(Records[last]) :
              o.kind = "unsupported" => HasKey(col.inv, o.path)

\* C6: a Property that has once been limited is limited, with no values, in
\* every later state in which it exists.
C6_LimitLatch ==
    \A pn \in latched :
        (HasKey(col.stats, pn[1]) /\ HasKey(Get(col.stats, pn[1]).props, pn[2])) =>
            LET pr == Get(Get(col.stats, pn[1]).props, pn[2])
            IN pr.limited /\ pr.values = <<>>

\* the state a collector is left in; a rejected batch's TypeError is the
\* caller's to catch and leaves no trace in the collector
SameCollector(a, b) ==
    a.stats = b.stats /\ a.inv = b.inv /\ a.err = Caught(b).err

\* C1: once the records that process_items looped over have all been passed
\* to process_object, one by one and in the same order, on another fresh
\* collector (or one of them has raised there), the two collectors are in the
\* same state: same Stats in the same key order, same invalid_properties.
C1_BatchEqualsOneByOne ==
    (steps = Len(accepted) \/ col.err # "") => SameCollector(col, bcol)

C1_Witness ==
    /\ op = "process_object"
    /\ calls = 1
    /\ steps = 2
    /\ Len(accepted) = 2
    /\ col.inv # <<>>
    /\ col.stats # <<>>
    /\ SameCollector(col, bcol)

\* the batches the top-level contract excludes
Rejected(items) ==
    \/ ~is_list(items)
    \/ /\ Len(items.e) > 0
       /\ \/ \E i, j \in 1..Len(items.e) : items.e[i].t # items.e[j].t
          \/ is_list(items.e[1])
          \/ ~is_dict(items.e[1])

\* C3: process_items raises TypeError for a batch that is not a list/tuple,
\* has elements of more than one type, of list/tuple type or of another
\* non-dict type, and returns for an empty list; in all these cases Stats and
\* invalid_properties are what they were before the call.
C3_RejectedBatchLeavesStats ==
    [][(op' = "process_items" /\ (Rejected(batch') \/ batch'.e = <<>>)) =>
          /\ bcol'.err = (IF Rejected(batch') THEN "TypeError" ELSE "")
          /\ bcol'.stats = bcol.stats
          /\ bcol'.inv = bcol.inv]_vars

C3_Witness ==
    /\ op = "process_items"
    /\ calls = 2
    /\ Rejected(batch)
    /\ Len(batch.e) = 2
    /\ bcol.err = "TypeError"
    /\ bcol.stats # <<>>

\* the longest sequence seen at path, 0 if none was
MaxLen(path) ==
    LET lens == {o.len : o \in {x \in seen : x.path = path /\ x.kind = "array"}}
    IN IF lens = {} THEN 0 ELSE CHOOSE n \in lens : \A m \in lens : m <= n

IsTopLevel(path) ==
    \A h \in 1..Len(path) :
        path[h] # "[" /\ ~StartsWith(Drop(path, h - 1), cut_separator)

\* every value seen at path was a sequence of scalars
OnlyFlatArrays(path) ==
    \A o \in seen : o.path = path => (o.kind = "array" /\ o.flat)

C7_ValuesWithinLimit ==
    col.err = "" =>
        \A i \in 1..Len(col.stats) :
            \A j \in 1..Len(col.stats[i].d.props) :
                LET pr == col.stats[i].d.props[j].d
                    key == <<col.stats[i].k, col.stats[i].d.props[j].k>>
                    obs == IF HasKey(obsVals, key) THEN Get(obsVals, key) ELSE <<>>
                IN /\ Len(pr.values) <= named_columns_limit
                   /\ pr.limited => pr.values = <<>>
                   /\ Len(obs) <= named_columns_limit =>
                          (~pr.limited /\ pr.values = obs)

----------------------------------------------------------------------------
(* Claims about the exporter *)

\* C8: whenever export_item_as_row returns, the row has one cell per
\* prepared header, and cell i is the cell computed for header i alone.
C8_OneCellPerHeader ==
    (exported # 0 /\ row.exc = "") =>
        /\ Len(row.row) = Len(ex.headers)
        /\ \A i \in 1..Len(ex.headers) :
               Returned(row.row[i]) = ExportCell(ex, ex.headers[i], Records[exported])

C8_Witness ==
    /\ op = "export_item_as_row"
    /\ row.exc = ""
    /\ Len(ex.headers) >= 3
    /\ \E i, j \in 1..Len(row.row) : row.row[i] = EmptyCell /\ row.row[j] # EmptyCell

\* a default no record holds
Missing == [t |-> "missing", a |-> <<>>, e |-> <<>>]

\* the path is absent from the record, or present with value None
LookupMiss(item, path) ==
    LET found == CutGet(item, path, Missing)
    IN found.exc = "" /\ found.v \in {Missing, NoneV}

\* C9: for every header whose path (with a field option: whose optioned
\* field) is absent from the exported record or holds None there, the cell
\* is the empty string, and computing it does not raise.
C9_LookupMissYieldsEmpty ==
    exported # 0 =>
        \A i \in 1..Len(ex.headers) :
            LET header_path == Split(ex.headers[i], cut_separator)
                first == MainHeaderAt(ex, header_path)
                path == IF first = 0 THEN ex.headers[i]
                        ELSE OptionPath(header_path, first)
            IN LookupMiss(Records[exported], path) =>
                   ExportCell(ex, ex.headers[i], Records[exported]) = Returned(EmptyCell)

\* C10: a further _prepare_for_export call on a constructed Exporter leaves
\* its headers and its stats as they were, whatever the options, also when
\* the header list is empty and the computation runs again.
C10_PrepareIdempotent ==
    [][op' = "_prepare_for_export" =>
          (ex'.headers = ex.headers /\ ex'.stats = ex.stats)]_vars

C10_Witness ==
    /\ op = "_prepare_for_export"
    /\ ex.headers = <<>>
    /\ ex.array_limits # <<>>
    /\ \E i \in 1..Len(ex.stats) : ex.stats[i].d.hasCount /\ ex.stats[i].d.count = 0
    /\ Len(ex.stats) >= 1

\* the operations that read the prepared headers
HeaderUses == {"export_item_as_row", "_get_renamed_headers"}

\* C11 as stated: the header computation is triggered by the first header
\* access or row export, and runs once in the lifetime of an Exporter.
C11_LazyOnce ==
    /\ [][ex'.computed # ex.computed => op' \in HeaderUses]_vars
    /\ [](ex.computed <= 1)

\* C11 amended: the constructor runs the header computation; header access
\* and row export leave the Exporter as it is; the header list never
\* changes after construction; and the computation runs again only in a
\* further _prepare_for_export call on an Exporter whose header list is
\* empty.
C11_EagerOnce ==
    /\ []((built /\ ex.err = "") => ex.computed >= 1)
    /\ [][op' \in HeaderUses => ex' = ex]_vars
    /\ [][built => ex'.headers = ex.headers]_vars
    /\ [][(built /\ ex'.computed # ex.computed) =>
             (op' = "_prepare_for_export" /\ ex.headers = <<>>)]_vars

C11_Witness ==
    /\ op = "export_item_as_row"
    /\ row.exc = ""
    /\ ex.computed = 1
    /\ ex.headers # <<>>
    /\ written = ex.headers

\* the checks C12 lists, for one field_options entry against stats
C12_Checks(stats, entry) ==
    LET option == entry.d
        descriptor == Get(stats, entry.k)
    IN /\ HasKey(stats, entry.k)
       /\ descriptor # EmptyD
       /\ option.named \in {"True", "False"}
       /\ option.grouped \in {"True", "False"}
       /\ option.named = "True" \/ option.grouped = "True"
       /\ option.named = "True" =>
              /\ HasKey(descriptor.props, option.name)
              /\ option.grouped = "False" =>
                     ~Get(descriptor.props, option.name).limited
              /\ option.grouped = "True" =>
                     descriptor.hasCount /\ descriptor.count > 0
       /\ \A i \in 1..Len(option.grouped_separators) :
              \A j \in 1..Len(option.grouped_separators[i].d) :
                  option.grouped_separators[i].d[j] \in {";", ",", "\n", ">", " "}

\* C12 as stated: after construction every retained field option passes
\* the checks against the descriptors the Exporter holds.
C12_RetainedValidAfter ==
    (built /\ ex.err = "") =>
        \A i \in 1..Len(ex.field_options) : C12_Checks(ex.stats, ex.field_options[i])

\* C12 amended: construction does not raise because of a field option, and
\* the retained options are exactly the given ones, in the given order,
\* that pass the checks against the stats the constructor was given (the
\* stats before array_limits lowers any count).
C12_RetainedValidAsGiven ==
    built =>
        /\ ex.err # "" => check_headers_renaming(ex.headers_renaming) # ""
        /\ ex.err = "" =>
               ex.field_options =
                   SelectSeq(given.field_options,
                             LAMBDA entry : C12_Checks(given.stats, entry))

\* one option dropped, the next kept, a third dropped
C12_Witness ==
    /\ built
    /\ ex.err = ""
    /\ Len(given.field_options) = 3
    /\ Len(ex.field_options) = 1
    /\ ex.field_options[1] = given.field_options[2]

\* a named and grouped option kept on a path whose count array_limits cut to 0
C12_CutWitness ==
    /\ built
    /\ ex.err = ""
    /\ \E i \in 1..Len(ex.field_options) :
           /\ ex.field_options[i].d.named = "True"
           /\ ex.field_options[i].d.grouped = "True"
           /\ Get(ex.stats, ex.field_options[i].k).count = 0
           /\ Get(given.stats, ex.field_options[i].k).count > 0

\* header is the header of path or of something below path
AtOrBelow(header, path) ==
    \/ header = path
    \/ StartsWith(header, path \o <<"[">>)
    \/ StartsWith(header, path \o cut_separator)

\* entry is a named and grouped option on a path that stats describes as an
\* array of objects having the name property
C13_NamedGroupedOnArray(stats, entry) ==
    /\ entry.d.named = "True"
    /\ entry.d.grouped = "True"
    /\ entry.d.grouped_separators = <<>>
    /\ HasKey(stats, entry.k)
    /\ Get(stats, entry.k).type = "array"
    /\ Get(stats, entry.k).hasCount
    /\ Get(stats, entry.k).count > 0
    /\ HasKey(Get(stats, entry.k).props, entry.d.name)

\* the prepared headers that the descriptor of path itself expands to: those
\* at or below path that are not headers of a descriptor kept for a path
\* below it
C13_OwnHeaders(path) ==
    SelectSeq(ex.headers,
              LAMBDA header :
                  /\ AtOrBelow(header, path)
                  /\ ~\E i \in 1..Len(ex.stats) :
                         /\ ex.stats[i].k # path
                         /\ AtOrBelow(ex.stats[i].k, path)
                         /\ AtOrBelow(header, ex.stats[i].k))

\* C13: a named and grouped option on an array-of-objects path is retained
\* and, limited name property or not, the path expands to exactly one
\* header, the bare path (as long as array_limits leaves the path an element
\* and no filter applies); the construction does not raise.
C13_NamedGroupedOneHeader ==
    built =>
        \A i \in 1..Len(given.field_options) :
            C13_NamedGroupedOnArray(given.stats, given.field_options[i]) =>
                LET path == given.field_options[i].k
                IN /\ ex.err = ""
                   /\ HasKey(ex.field_options, path)
                   /\ Get(ex.field_options, path) = given.field_options[i].d
                   /\ (Get(ex.stats, path).count > 0 /\ ex.headers_filters = <<>>) =>
                          C13_OwnHeaders(path) = <<path>>

C13_Witness ==
    /\ built
    /\ ex.err = ""
    /\ \E i \in 1..Len(given.field_options) :
           /\ C13_NamedGroupedOnArray(given.stats, given.field_options[i])
           /\ Get(Get(given.stats, given.field_options[i].k).props,
                  given.field_options[i].d.name).limited
           /\ ex.headers = <<given.field_options[i].k>>

\* the elements of the value at a path (a sequence of objects or one
\* object) whose name property equals the text v
C14_Named(value, name, v) ==
    SelectSeq(IF is_list(value) THEN value.e ELSE <<value>>,
              LAMBDA element : /\ is_dict(element)
                               /\ HasItem(element, name)
                               /\ Item(element, name) = StrV(v))

\* C14: under a named-only option at P the cell of header P->v->k is the
\* k-value of the element at P whose name equals v, and empty when the
\* record has none, for a sequence of objects and for a single object alike.
C14_NamedCellByName ==
    (exported # 0 /\ row.exc = "") =>
        \A i \in 1..Len(ex.headers) :
            LET parts == Split(ex.headers[i], cut_separator)
                record == Records[exported]
            IN (/\ Len(parts) = 3
                /\ HasKey(ex.field_options, parts[1])
                /\ Get(ex.field_options, parts[1]).named = "True"
                /\ Get(ex.field_options, parts[1]).grouped = "False"
                /\ HasItem(record, parts[1])
                /\ is_list(Item(record, parts[1])) \/ is_dict(Item(record, parts[1]))) =>
                   LET named == C14_Named(Item(record, parts[1]),
                                          Get(ex.field_options, parts[1]).name, parts[2])
                   IN row.row[i] =
                          IF named # <<>> /\ HasItem(named[1], parts[3])
                          THEN Item(named[1], parts[3])
                          ELSE EmptyCell

\* the state in which the constructor has just returned an Exporter
Constructed == built /\ op = "Exporter" /\ ex.err = ""

\* the headers of an Exporter constructed from the same arguments except
\* that array_limits has no entry for path
C15_HeadersWithout(path) ==
    __attrs_post_init__(
        NewExporter(given.stats, ex.invalid_properties,
                    [stringify_invalid |-> ex.stringify_invalid,
                     field_options |-> given.field_options,
                     array_limits |-> Pop(ex.array_limits, path),
                     headers_filters |-> ex.headers_filters,
                     headers_order |-> ex.headers_order,
                     headers_renaming |-> ex.headers_renaming,
                     capitalize_headers |-> ex.capitalize_headers])).headers

\* header refers to an element of path whose index is in indexes
C15_RefersTo(header, path, indexes) ==
    \E i \in indexes : StartsWith(header, path \o IndexStr(i))

C16_Generated ==
    __attrs_post_init__(
        NewExporter(given.stats, ex.invalid_properties,
                    [stringify_invalid |-> ex.stringify_invalid,
                     field_options |-> given.field_options,
                     array_limits |-> ex.array_limits,
                     headers_filters |-> <<>>,
                     headers_order |-> <<>>,
                     headers_renaming |-> ex.headers_renaming,
                     capitalize_headers |-> ex.capitalize_headers])).headers

\* the pattern text occurs at the start of the header, or anywhere in it
\* when the pattern is ".*" followed by the text
C16_Excluded(header) ==
    \E i \in 1..Len(ex.headers_filters) :
        LET at == Find(header, ex.headers_filters[i].text)
        IN IF ex.headers_filters[i].anywhere THEN at > 0 ELSE at = 1

\* number of occurrences of header in headers
Occurrences(headers, header) ==
    Cardinality({i \in 1..Len(headers) : headers[i] = header})

\* C16: when the constructor returns, the prepared headers are the generated
\* headers that no headers_filters pattern matches at their start, each as
\* often as it was generated, and in the generated order when no
\* headers_order is given.
C16_FilteredHeaders ==
    Constructed =>
        LET kept == SelectSeq(C16_Generated, LAMBDA header : ~C16_Excluded(header))
        IN /\ \A h \in 1..Len(C16_Generated) :
                  Occurrences(ex.headers, C16_Generated[h])
                      = Occurrences(kept, C16_Generated[h])
           /\ Len(ex.headers) = Len(kept)
           /\ ex.headers_order = <<>> => ex.headers = kept

\* one pattern removed a header, another occurs in a header without
\* matching at its start and left it in place
C16_Witness ==
    /\ built
    /\ ex.err = ""
    /\ \E h \in 1..Len(C16_Generated) : C16_Excluded(C16_Generated[h])
    /\ \E h \in 1..Len(ex.headers), i \in 1..Len(ex.headers_filters) :
           /\ ~ex.headers_filters[i].anywhere
           /\ Find(ex.headers[h], ex.headers_filters[i].text) > 1

\* the headers of an Exporter constructed from the same arguments without
\* headers_order
C17_Unordered ==
    __attrs_post_init__(
        NewExporter(given.stats, ex.invalid_properties,
                    [stringify_invalid |-> ex.stringify_invalid,
                     field_options |-> given.field_options,
                     array_limits |-> ex.array_limits,
                     headers_filters |-> ex.headers_filters,
                     headers_order |-> <<>>,
                     headers_renaming |-> ex.headers_renaming,
                     capitalize_headers |-> ex.capitalize_headers])).headers

\* the entries of order from position i on that are among headers, each at
\* its first position in order only
RECURSIVE C17_Ordered(_, _, _)
C17_Ordered(order, headers, i) ==
    IF i > Len(order) THEN <<>>
    ELSE IF /\ order[i].t = "str"
            /\ Occurrences(headers, order[i].a) > 0
            /\ \A j \in 1..(i - 1) : order[j] # order[i]
    THEN <<order[i].a>> \o C17_Ordered(order, headers, i + 1)
    ELSE C17_Ordered(order, headers, i + 1)

\* C17: when the constructor returns, the prepared headers are a permutation
\* of the filtered headers; those named in headers_order come first, in the
\* order of headers_order, and the others follow in their natural order.
C17_OrderedHeaders ==
    Constructed =>
        LET first == C17_Ordered(ex.headers_order, C17_Unordered, 1)
            others == SelectSeq(C17_Unordered,
                                LAMBDA header : Occurrences(first, header) = 0)
        IN /\ Len(ex.headers) = Len(C17_Unordered)
           /\ \A h \in 1..Len(C17_Unordered) :
                  Occurrences(ex.headers, C17_Unordered[h])
                      = Occurrences(C17_Unordered, C17_Unordered[h])
           /\ (\A h \in 1..Len(C17_Unordered) :
                   Occurrences(C17_Unordered, C17_Unordered[h]) = 1) =>
                  ex.headers = first \o others

\* headers_order named a header twice and an entry that is no header, and
\* moved a header
C17_Witness ==
    /\ built
    /\ ex.err = ""
    /\ ex.headers # C17_Unordered
    /\ \E i, j \in 1..Len(ex.headers_order) :
           /\ i < j
           /\ ex.headers_order[i] = ex.headers_order[j]
           /\ Occurrences(ex.headers, ex.headers_order[i].a) = 1
    /\ \E i \in 1..Len(ex.headers_order) :
           Occurrences(ex.headers, ex.headers_order[i].a) = 0

\* the records collected presented a scalar and an array or object at path
C18_Drifted(path) ==
    /\ IsPropertyPath(path)
    /\ \E o \in seen : o.path = path /\ o.kind = "scalar"
    /\ \E o \in seen : o.path = path /\ o.kind \in {"array", "object"} /\ Populated(o)

\* no option of the Exporter other than stringify_invalid is in use
C18_PlainExporter ==
    /\ built
    /\ ex.err = ""
    /\ given.field_options = <<>>
    /\ ex.array_limits = <<>>
    /\ ex.headers_filters = <<>>

\* C18: with stringify_invalid=True a field at which the records presented
\* a scalar and a non-scalar value has exactly one header, its bare path,
\* and the cell of every exported record is the string form of the raw value
\* found at that path (empty when the path is absent).
C18_StringifiedColumn ==
    (C18_PlainExporter /\ ex.stringify_invalid) =>
        \A path \in {o.path : o \in seen} :
            C18_Drifted(path) =>
                /\ SelectSeq(ex.headers, LAMBDA header : AtOrBelow(header, path)) = <<path>>
                /\ (exported # 0 /\ row.exc = "") =>
                       \A i \in 1..Len(ex.headers) :
                           ex.headers[i] = path =>
                               LET raw == CutGet(Records[exported], path, EmptyCell)
                               IN raw.exc = "" /\ row.row[i] = StrV(str(raw.v))

\* the headers of an Exporter constructed from the same arguments with
\* stringify_invalid=True
C19_Stringified ==
    __attrs_post_init__(
        NewExporter(given.stats, ex.invalid_properties,
                    [stringify_invalid |-> TRUE,
                     field_options |-> given.field_options,
                     array_limits |-> ex.array_limits,
                     headers_filters |-> ex.headers_filters,
                     headers_order |-> ex.headers_order,
                     headers_renaming |-> ex.headers_renaming,
                     capitalize_headers |-> ex.capitalize_headers])).headers

\* header is the header of an invalid path or of something below one
C19_OfInvalid(header) ==
    \E i \in 1..Len(ex.invalid_properties) :
        AtOrBelow(header, ex.invalid_properties[i].k)

\* C19: with stringify_invalid=False no prepared header is the header of a
\* path in invalid_properties or of a descendant of one, and the other
\* headers are those prepared with stringify_invalid=True, in the same order.
C19_InvalidSkipped ==
    (Constructed /\ ~ex.stringify_invalid) =>
        /\ \A h \in 1..Len(ex.headers) : ~C19_OfInvalid(ex.headers[h])
        /\ ex.headers = SelectSeq(C19_Stringified, LAMBDA header : ~C19_OfInvalid(header))

\* header after every headers_renaming pair in list order, then with its
\* first character in upper case when capitalize_headers is set
C20_WrittenAs(header) ==
    LET renamed == RenameLoop(ex.headers_renaming, header, 1)
    IN IF ex.capitalize_headers /\ renamed # <<>> THEN Capitalize(renamed) ELSE renamed

\* C20: the headers written out are the prepared headers, one for one and in
\* the same order, each renamed by every headers_renaming pair in list order
\* and capitalized when capitalize_headers is set, whether or not
\* headers_renaming is empty; the prepared headers stay as they are.
C20_WrittenHeaders ==
    [][op' = "_get_renamed_headers" =>
          /\ ex' = ex
          /\ written' = [h \in 1..Len(ex.headers) |-> C20_WrittenAs(ex.headers[h])]]_vars

----------------------------------------------------------------------------
(* Claims about collecting and exporting the same records *)

\* the non-None scalars found by walking value v, which sits at path
RECURSIVE ScalarsIn(_, _)
ScalarsIn(v, path) ==
    IF Kind(v) = "scalar" THEN {[path |-> path, v |-> v]}
    ELSE IF is_list(v)
    THEN UNION {ScalarsIn(v.e[i], path \o IndexStr(i - 1)) : i \in 1..Len(v.e)}
    ELSE IF is_dict(v)
    THEN UNION {ScalarsIn(v.e[i].v, ChildPath(path, v.e[i].k)) : i \in 1..Len(v.e)}
    ELSE {}

\* every record passed to the collector holds a non-None scalar at path
C21_AlwaysScalar(path) ==
    \A r \in fed : \E m \in ScalarsIn(r, <<>>) : m.path = path

\* no retained field option is given for path or for a path above it
C21_NoOption(path) ==
    \A i \in 1..Len(ex.field_options) :
        ex.field_options[i].k # path /\ ~IsDescendant(path, ex.field_options[i].k)

\* C21: for a path at which every collected record holds a non-None scalar
\* and to which no field option applies, the path is a header exactly once,
\* no header lies below it, and the cell a collected record gets under it is
\* the string form of the record's value.
C21_ScalarRoundTrip ==
    (built /\ ex.err = "" /\ fed # {}) =>
        \A l \in ScalarsIn(Records[last], <<>>) :
            (C21_AlwaysScalar(l.path) /\ C21_NoOption(l.path)) =>
                /\ Occurrences(ex.headers, l.path) = 1
                /\ \A h \in 1..Len(ex.headers) : ~IsDescendant(ex.headers[h], l.path)
                /\ (exported # 0 /\ Records[exported] \in fed /\ row.exc = "") =>
                       \A h \in 1..Len(ex.headers) :
                           ex.headers[h] = l.path =>
                               \E m \in ScalarsIn(Records[exported], <<>>) :
                                   m.path = l.path /\ row.row[h] = StrV(str(m.v))

----------------------------------------------------------------------------
(* Claims about conflicts, rebuilds and None in the collector *)

\* the warnings of the three type-drift branches of _process_base_object
C22_DriftMessages ==
    {"hashable after non-hashable", "non-hashable after hashable", "type changed"}

\* the paths at which the step from collector a to collector b found a drift
C22_Conflicts(a, b) ==
    {b.inv[j].k : j \in {i \in 1..Len(b.inv) :
                             /\ ~HasKey(a.inv, b.inv[i].k)
                             /\ b.inv[i].d \in C22_DriftMessages}}

\* C22: after a process_object call that found a type drift at path P, Stats
\* maps P to the empty descriptor and holds no descendant of P (P followed by
\* an index or by the separator), whatever the depth of P; and every key that
\* was in Stats and is a descendant of no such P is still in Stats.
C22_PurgeOnConflict ==
    [][(op' = "process_object" /\ col'.err = "") =>
          LET found == C22_Conflicts(col, col')
          IN /\ \A P \in found :
                    /\ HasKey(col'.stats, P)
                    /\ Get(col'.stats, P) = EmptyD
                    /\ \A i \in 1..Len(col'.stats) : ~IsDescendant(col'.stats[i].k, P)
             /\ found # {} =>
                    \A i \in 1..Len(col.stats) :
                        (\A P \in found : ~IsDescendant(col.stats[i].k, P)) =>
                            HasKey(col'.stats, col.stats[i].k)]_vars

\* the objects found by walking value v, which sits at path, as [path, v]
RECURSIVE ObjectsIn(_, _)
ObjectsIn(v, path) ==
    IF is_list(v)
    THEN UNION {ObjectsIn(v.e[i], path \o IndexStr(i - 1)) : i \in 1..Len(v.e)}
    ELSE IF is_dict(v)
    THEN (IF path = <<>> THEN {} ELSE {[path |-> path, v |-> v]})
         \cup UNION {ObjectsIn(v.e[i].v, ChildPath(path, v.e[i].k)) : i \in 1..Len(v.e)}
    ELSE {}

\* path P holds the properties of scalar-only objects, and neither P nor a
\* path above it is invalid
C23_ScalarOnly(st, P) ==
    /\ HasKey(st.stats, P)
    /\ Get(st.stats, P).type = "object"
    /\ Get(st.stats, P).props # <<>>
    /\ \A j \in 1..Len(st.inv) : st.inv[j].k # P /\ ~IsDescendant(P, st.inv[j].k)

\* C23: when a path P that held only scalar-valued objects receives an
\* object with a non-scalar value, then after the call every sub-property k
\* recorded for P before the call has an entry P<sep>k in Stats (limited or
\* not), P is marked degenerate, and every non-None key of the current object
\* has an entry as well.
C23_RebuildKeepsAll ==
    [][(op' = "process_object" /\ col'.err = "") =>
          \A o \in ObjectsIn(Records[last'], <<>>) :
              (/\ C23_ScalarOnly(col, o.path)
               /\ \E i \in 1..Len(o.v.e) : ~is_hashable(o.v.e[i].v)) =>
                  /\ \A j \in 1..Len(Get(col.stats, o.path).props) :
                         HasKey(col'.stats,
                                ChildPath(o.path, Get(col.stats, o.path).props[j].k))
                  /\ HasKey(col'.stats, o.path)
                  /\ Get(col'.stats, o.path) = DegenerateD
                  /\ \A i \in 1..Len(o.v.e) :
                         o.v.e[i].v # NoneV =>
                             HasKey(col'.stats, ChildPath(o.path, o.v.e[i].k))]_vars

\* the descriptor marks an object path as degenerate
C24_Degenerate(d) == d.type = "object" /\ d.hasCount /\ d.count = 0

\* neither path P nor a path above it is in invalid_properties
C24_Valid(st, P) ==
    \A j \in 1..Len(st.inv) : st.inv[j].k # P /\ ~IsDescendant(P, st.inv[j].k)

\* C24: once a path is marked degenerate it stays marked, with no properties,
\* as long as neither the path nor a path above it is invalid; and every
\* later object presented at it is processed key by key: each of its
\* non-None keys k has an entry P<sep>k in Stats after the call.
C24_DegeneratePermanent ==
    [][(op' = "process_object" /\ col'.err = "") =>
          \A h \in 1..Len(col.stats) :
              (C24_Degenerate(col.stats[h].d) /\ C24_Valid(col', col.stats[h].k)) =>
                  LET P == col.stats[h].k
                  IN /\ HasKey(col'.stats, P)
                     /\ C24_Degenerate(Get(col'.stats, P))
                     /\ Get(col'.stats, P).props = <<>>
                     /\ \A o \in ObjectsIn(Records[last'], <<>>) :
                            o.path = P =>
                                \A i \in 1..Len(o.v.e) :
                                    o.v.e[i].v # NoneV =>
                                        HasKey(col'.stats, ChildPath(P, o.v.e[i].k))]_vars

\* value v without the properties that are None, at every depth
RECURSIVE C25_WithoutNone(_)
C25_WithoutNone(v) ==
    IF is_dict(v)
    THEN LET kept == SelectSeq(v.e, LAMBDA kv : kv.v # NoneV)
         IN DictV([i \in 1..Len(kept) |-> KV(kept[i].k, C25_WithoutNone(kept[i].v))])
    ELSE IF is_list(v)
    THEN [v EXCEPT !.e = [i \in 1..Len(v.e) |-> C25_WithoutNone(v.e[i])]]
    ELSE v

\* C25: a property whose value is None changes nothing: a process_object
\* call leaves Stats and invalid_properties as the same call does for the
\* record without its None properties (no descriptor, no Property entry, no
\* value, no conflict on their account), in objects at every depth and in
\* objects that are elements of an array.
C25_NoneIgnored ==
    [][op' = "process_object" =>
          LET without == process_object(col, C25_WithoutNone(Records[last']), <<>>)
          IN col'.stats = without.stats /\ col'.inv = without.inv]_vars

----------------------------------------------------------------------------
(* Claims about the headers and cells of fields with options *)

\* path<sep>v<sep>k for each recorded value v of the name property, in the
\* recorded order, and under each v for each other property k
C26_Expected(path, meta, name) ==
    LET values == Get(meta.props, name).values
        others == SelectSeq(Keys(meta.props), LAMBDA k : k # name)
    IN ConcatAll([i \in 1..Len(values) |->
                     [j \in 1..Len(others) |->
                         path \o cut_separator \o str(values[i])
                         \o cut_separator \o others[j]]])

\* C26: the headers of a path with a retained named-only option are exactly
\* path<sep>v<sep>k, for every value v recorded for the name property (in the
\* order the records presented them) and under it every other property k;
\* none of them is path[i]<sep>k.  (Stated for a path that array_limits
\* and headers_filters leave alone and that is not skipped as invalid.)
C26_NamedHeaders ==
    (built /\ ex.err = "" /\ ex.headers_filters = <<>>) =>
        \A i \in 1..Len(ex.field_options) :
            LET path == ex.field_options[i].k
                option == ex.field_options[i].d
                meta == Get(ex.stats, path)
            IN (/\ option.named = "True"
                /\ option.grouped = "False"
                /\ ~HasKey(ex.array_limits, path)
                /\ ex.stringify_invalid \/ ~HasKey(ex.invalid_properties, path)) =>
                   /\ C13_OwnHeaders(path) = C26_Expected(path, meta, option.name)
                   /\ \A h \in 1..Len(ex.headers) :
                          \A j \in 1..Len(meta.props) :
                              \A n \in 0..9 :
                                  ex.headers[h] # path \o IndexStr(n) \o cut_separator
                                                       \o meta.props[j].k

\* two records gave the name property its two values, which head the columns
C26_Witness ==
    /\ built
    /\ ex.err = ""
    /\ fed = {Records[14], Records[35]}
    /\ last = 35
    /\ HasKey(ex.field_options, <<"c">>)
    /\ Get(ex.field_options, <<"c">>) = NamedOption("False", <<"n">>)
    /\ Get(Get(ex.stats, <<"c">>).props, <<"n">>).values = <<X, Y>>
    /\ Len(C13_OwnHeaders(<<"c">>)) = 4
    /\ Len(ex.headers) > 4

\* the segment a grouped cell holds for element value v: its string form
\* with the separator escaped, nothing for None
C27_Segment(v, separator) ==
    IF v = NoneV THEN <<>>
    ELSE Replace(str(v), separator,
                 IF separator = <<"\n">> THEN <<"\\", "n">> ELSE <<"\\">> \o separator)

\* the separator of the cells under header
C27_Separator(option, header) ==
    IF HasKey(option.grouped_separators, header)
       /\ Get(option.grouped_separators, header) # <<>>
    THEN Get(option.grouped_separators, header)
    ELSE grouped_separator

\* C27: under a grouped-only option on P, export_item_as_row returns, and
\* the cell of header P over a sequence of scalars is the separator-join of
\* the escaped string forms of its elements, and the cell of header P<sep>k
\* over a sequence of objects has one segment per element, in order: the
\* element's escaped k-value, empty when k is missing or None.  Scalars
\* include 0 and the empty string.
C27_GroupedCells ==
    exported # 0 =>
        \A i \in 1..Len(ex.field_options) :
            LET P == ex.field_options[i].k
                option == ex.field_options[i].d
                record == Records[exported]
                elements == Item(record, P).e
                Cell(header, texts) ==
                    \A h \in 1..Len(ex.headers) :
                        ex.headers[h] = header =>
                            /\ row.exc = ""
                            /\ row.row[h] = StrV(Join(texts, C27_Separator(option, header)))
            IN (/\ option.grouped = "True"
                /\ option.named = "False"
                /\ HasItem(record, P)
                /\ is_list(Item(record, P))) =>
                   /\ (\A j \in 1..Len(elements) : Kind(elements[j]) = "scalar") =>
                          Cell(P, [j \in 1..Len(elements) |->
                                      C27_Segment(elements[j], C27_Separator(option, P))])
                   /\ (\A j \in 1..Len(elements) :
                           /\ is_dict(elements[j])
                           /\ \A n \in 1..Len(elements[j].e) :
                                  Kind(elements[j].e[n].v) \in {"scalar", "none"}) =>
                          \A k \in {Get(ex.stats, P).props[n].k :
                                        n \in 1..Len(Get(ex.stats, P).props)} :
                              Cell(P \o cut_separator \o k,
                                   [j \in 1..Len(elements) |->
                                       IF HasItem(elements[j], k)
                                       THEN C27_Segment(Item(elements[j], k),
                                                        C27_Separator(option,
                                                                      P \o cut_separator \o k))
                                       ELSE <<>>])

\* path is P or lies below P: the steps of P start the steps of path
C28_Under(path, P) ==
    LET below == Split(path, cut_separator)
        above == Split(P, cut_separator)
    IN Len(above) <= Len(below) /\ SubSeq(below, 1, Len(above)) = above

\* the retained options that have no retained option above them
C28_Shallowest(ex_) ==
    SelectSeq(ex_.field_options,
              LAMBDA own : \A n \in 1..Len(ex_.field_options) :
                               C28_Under(own.k, ex_.field_options[n].k) =>
                                   ex_.field_options[n].k = own.k)

\* C28: when options are retained for P and for a path Q below P, and no
\* option is retained above P, the cell of every header under Q is the cell
\* the option of P alone produces, and the whole row is the row exported
\* without the options that have a retained option above them.
C28_ShallowestWins ==
    exported # 0 =>
        \A i, j \in 1..Len(ex.field_options) :
            LET P == ex.field_options[i].k
                Q == ex.field_options[j].k
                alone == [ex EXCEPT !.field_options = <<ex.field_options[i]>>]
            IN (/\ P # Q
                /\ C28_Under(Q, P)
                /\ \A n \in 1..Len(ex.field_options) :
                       C28_Under(P, ex.field_options[n].k) => n = i) =>
                   /\ row = export_item_as_row(
                                [ex EXCEPT !.field_options = C28_Shallowest(ex)],
                                Records[exported])
                   /\ \A h \in 1..Len(ex.headers) :
                          (/\ C28_Under(ex.headers[h], Q)
                           /\ ~(ex.stringify_invalid
                                /\ HasKey(ex.invalid_properties, ex.headers[h]))) =>
                              LET header_path == Split(ex.headers[h], cut_separator)
                                  first == Len(Split(P, cut_separator))
                                  cell == _export_field_with_options(
                                              alone, ex.headers[h], P,
                                              SubSeq(header_path, first + 1, Len(header_path)),
                                              Records[exported])
                              IN /\ cell.exc # "" => row.exc # ""
                                 /\ row.exc = "" => cell = Returned(row.row[h])

\* a record was exported under options on c and on c->n, and the cell of
\* the header c->n->a holds the n of the element of c
C28_Witness ==
    /\ exported = 38
    /\ row.exc = ""
    /\ Len(ex.field_options) = 2
    /\ \E h \in 1..Len(ex.headers) :
           /\ ex.headers[h] = <<"c", "-", ">", "n", "-", ">", "a">>
           /\ row.row[h] = X

\* path P is in invalid_properties and Stats maps it to the empty descriptor
C29_InvalidEmpty(st, P) ==
    /\ HasKey(st.inv, P)
    /\ HasKey(st.stats, P)
    /\ Get(st.stats, P) = EmptyD

\* the paths at which v, which sits at path, presents a value (None included)
RECURSIVE C29_PathsIn(_, _)
C29_PathsIn(v, path) ==
    {path} \cup
    (IF is_list(v)
     THEN UNION {C29_PathsIn(v.e[i], path \o IndexStr(i - 1)) : i \in 1..Len(v.e)}
     ELSE IF is_dict(v)
     THEN UNION {C29_PathsIn(v.e[i].v, ChildPath(path, v.e[i].k)) : i \in 1..Len(v.e)}
     ELSE {})

C29_Presented(record) ==
    UNION {C29_PathsIn(record.e[i].v, record.e[i].k) : i \in 1..Len(record.e)}

\* C29: a process_object call removes no entry of invalid_properties, and a
\* path that is invalid with the empty descriptor before the call, and at
\* which the record presents a value, is so after it, and Stats has gained
\* no descendant of it.
C29_InvalidAbsorbing ==
    [][op' = "process_object" =>
          /\ \A i \in 1..Len(col.inv) : HasKey(col'.inv, col.inv[i].k)
          /\ \A i \in 1..Len(col.inv) :
                 LET P == col.inv[i].k
                 IN (C29_InvalidEmpty(col, P) /\ P \in C29_Presented(Records[last'])) =>
                        /\ C29_InvalidEmpty(col', P)
                        /\ \A n \in 1..Len(col'.stats) :
                               IsDescendant(col'.stats[n].k, P) =>
                                   HasKey(col.stats, col'.stats[n].k)]_vars

\* no property name in v holds the path separator or a square bracket
RECURSIVE C30_CleanNames(_)
C30_CleanNames(v) ==
    IF is_dict(v)
    THEN \A i \in 1..Len(v.e) :
             /\ \A h \in 1..Len(v.e[i].k) :
                    /\ v.e[i].k[h] \notin {"[", "]"}
                    /\ ~StartsWith(Drop(v.e[i].k, h - 1), cut_separator)
             /\ C30_CleanNames(v.e[i].v)
    ELSE IF is_list(v)
    THEN \A i \in 1..Len(v.e) : C30_CleanNames(v.e[i])
    ELSE TRUE

\* C30: on an Exporter built from records with clean property names, no
\* header string occurs twice in the prepared header list.
C30_NoDuplicateHeaders ==
    (built /\ ex.err = "" /\ \A record \in fed : C30_CleanNames(record)) =>
        \A h, g \in 1..Len(ex.headers) : ex.headers[h] = ex.headers[g] => h = g
====
